---------------------------- MODULE Spec2Model ----------------------------
(***************************************************************************)
(* Post-conversation analysis: the Analysis Coordinator                    *)
(* (ScreeningDecisionAgent), the Context Assembler                         *)
(* (ScreeningDecisionContextManager) and the Tool Orchestrator             *)
(* (ScreeningDecisionToolOrchestrator), over a Conversation/Decision store *)
(* and an external reasoning engine.                                       *)
(*                                                                         *)
(* Python values are modelled as follows: None is NULL; a dict is a record *)
(* and dict.get is Get; str/UUID values are strings; an exception is a     *)
(* tag naming its class.                                                   *)
(***************************************************************************)
EXTENDS Integers, Sequences, FiniteSets, TLC

VARIABLES
    conversations,  \* store: Conversation rows by id
    decisions,      \* store: flushed Decision rows, in insertion order
    run,            \* one record per call in progress
    call            \* a helper of the orchestrator called on its own

vars == <<conversations, decisions, run, call>>

NULL == "NULL"

(***************************************************************************)
(* Bounds of the model.                                                    *)
(***************************************************************************)
MaxBlocks == 3      \* longest response.content the engine returns

RunIds == {"r1", "r2"}
ConvIds == {"c1", "c2"}
MatchIds == {"m1", "m2"}

\* dict.get(key, default) and dict.get(key)
Get(d, key, default) == IF key \in DOMAIN d THEN d[key] ELSE default

\* Python truthiness of the JSON values the model stores
Truthy(v) == v \notin {NULL, "false", "absent"}

(***************************************************************************)
(* The store.  Conversation.context is a nullable JSON column: None, a     *)
(* dict (with or without the keys post_analysis_completed and match_id) or *)
(* another JSON value (a non-empty list).                                  *)
(***************************************************************************)
JsonNull == [kind |-> "null"]
JsonList == [kind |-> "list"]

JsonDicts ==
    { [kind |-> "dict"] }
    \cup { [kind |-> "dict", post_analysis_completed |-> f] : f \in {"true", "false"} }
    \cup { [kind |-> "dict", match_id |-> "m1"] }
    \cup { [kind |-> "dict", post_analysis_completed |-> f, match_id |-> "m1"] :
             f \in {"true", "false"} }

ContextValues == {JsonNull, JsonList} \cup JsonDicts

AbsentRow == [exists |-> FALSE]
ConversationRows == {AbsentRow} \cup { [exists |-> TRUE, context |-> c] : c \in ContextValues }

\* JobPostingMatch -> JobPosting -> (team_id, client_id), and the clinician
Match(m) ==
    CASE m = "m1" -> [id |-> "m1", team_id |-> "t1", client_id |-> "cl1", clinician_id |-> "k1"]
      [] m = "m3" -> [id |-> "m3", team_id |-> "t9", client_id |-> "cl1", clinician_id |-> "k1"]
      [] m = "m4" -> [id |-> "m4", team_id |-> NULL, client_id |-> "cl1", clinician_id |-> "k1"]
      [] OTHER -> [id |-> "m2", team_id |-> "t2", client_id |-> "cl2", clinician_id |-> "k2"]

\* the JobPostingMatch rows: those of MatchIds, m3 whose job posting names a
\* team that has no Team row, and m4 whose job posting has no team_id
JobPostingMatches == MatchIds \cup {"m3", "m4"}

\* the Team rows
Teams == {"t1", "t2"}

\* getattr(obj, name, default) on a value of a JSON column: dicts, lists and
\* None have no attribute of that name, whatever keys a dict holds
GetAttr(obj, name, default) == default

\* select(Conversation).where(Conversation.id == id) ... scalar_one_or_none()
SelectConversation(id) ==
    IF id \in ConvIds /\ conversations[id].exists THEN conversations[id] ELSE AbsentRow

\* the completion flag as stored, for stating properties
StoredFlag(id) ==
    LET row == SelectConversation(id)
    IN IF row.exists /\ row.context.kind = "dict"
       THEN Get(row.context, "post_analysis_completed", "absent")
       ELSE "absent"

(***************************************************************************)
(* ScreeningDecisionAgent._check_already_analyzed.  fault: the select      *)
(* raises.  Returns the value the caller tests for truth.                  *)
(***************************************************************************)
CheckAlreadyAnalyzed_OtherKey(id, fault) ==
    IF fault THEN "false"
    ELSE LET conversation == SelectConversation(id)
         IN IF ~conversation.exists THEN "false"
            ELSE LET raw == conversation.context
                     context == IF raw.kind = "null" THEN [kind |-> "dict"] ELSE raw
                 IN IF context.kind # "dict"
                    THEN "false"
                    ELSE Get(context, "analysis_completed", "false")

CheckAlreadyAnalyzed_FailsClosed(id, fault) ==
    IF fault \/ ~SelectConversation(id).exists THEN "true"
    ELSE LET raw == SelectConversation(id).context
             context == IF raw.kind = "null" THEN [kind |-> "dict"] ELSE raw
         IN IF context.kind # "dict"
            THEN "false"
            ELSE Get(context, "post_analysis_completed", "false")

CheckAlreadyAnalyzed(id, fault) ==
    IF fault THEN "false"                             \* except: return False
    ELSE LET conversation == SelectConversation(id)
         IN IF ~conversation.exists THEN "false"
            ELSE LET raw == conversation.context
                     \* getattr(conversation, 'context', {}) or {}
                     context == IF raw.kind = "null" THEN [kind |-> "dict"] ELSE raw
                 IN IF context.kind # "dict"
                    THEN "false"                      \* list.get: AttributeError, caught
                    ELSE Get(context, "post_analysis_completed", "false")

ConsultsFlag_Always(force_reanalysis) == TRUE

\* analyze_conversation: if not force_reanalysis
ConsultsFlag(force_reanalysis) == ~force_reanalysis

(***************************************************************************)
(* ScreeningDecisionContextManager.assemble_analysis_context.  Returns     *)
(* NoContext for None, else the AnalysisContext.                           *)
(***************************************************************************)
\* _get_conversation_data: None when the select raises or finds no row
GetConversationData(id, fault) ==
    IF fault THEN AbsentRow ELSE SelectConversation(id)

\* _get_match_data: None when the conversation yields no match_id or no
\* JobPostingMatch row has that id
GetMatchData(conversation) ==
    LET match_id == GetAttr(conversation.context, "match_id", NULL)
    IN IF match_id = NULL THEN NULL
       ELSE IF match_id \notin JobPostingMatches THEN NULL
       ELSE match_id

\* _get_match_data: team_name, "Unknown Team" unless the job posting has a
\* team_id and a Team row has that id
TeamName(match_id) ==
    IF Match(match_id).team_id # NULL /\ Match(match_id).team_id \in Teams
    THEN "Team"
    ELSE "Unknown Team"

\* _prepare_conversation_metadata(self, conversation, messages, notes, match_data)
PrepareConversationMetadataParams == 4
\* the call at context_manager.py:82 passes conversation, messages, match_data
PrepareConversationMetadataArgs == 3

NoContext == [some |-> FALSE]

\* the Message rows of a conversation, ordered by created_at
MessagesOf(conversation) == Get(conversation, "messages", <<>>)

AssembleAnalysisContext_NoMatchNeeded(id, fault, decisions_fault) ==
    LET conversation == GetConversationData(id, fault)
    IN IF ~conversation.exists THEN NoContext
       ELSE [some |-> TRUE,
             conversation_id |-> id,
             messages |-> MessagesOf(conversation),
             message_count |-> Len(MessagesOf(conversation)),
             conversation_metadata |-> "ConversationMetadata"]

\* the characters of a str
Chars(text) ==
    CASE text = "" -> <<>>
      [] text = "  " -> <<" ", " ">>
      [] text = "abc" -> <<"a", "b", "c">>
      [] text = "a b c" -> <<"a", " ", "b", " ", "c">>
      [] text = "b c d" -> <<"b", " ", "c", " ", "d">>
      [] text = "A B c" -> <<"A", " ", "B", " ", "c">>
      [] text = "a  b" -> <<"a", " ", " ", "b">>
      [] text = "a a" -> <<"a", " ", "a">>
      [] text = "Shift Swap" -> <<"S", "h", "i", "f", "t", " ", "S", "w", "a", "p">>
      [] text = "SHIFT" -> <<"S", "H", "I", "F", "T">>
      [] text = "shift" -> <<"s", "h", "i", "f", "t">>
      [] text = "s_ift" -> <<"s", "_", "i", "f", "t">>
      [] text = "s%p" -> <<"s", "%", "p">>
      [] text = "Leave" -> <<"L", "e", "a", "v", "e">>
      [] text = "body" -> <<"b", "o", "d", "y">>
      [] text = "..." -> <<".", ".", ".">>
      [] text = "text of 199" -> [i \in 1..199 |-> "x"]
      [] text = "text of 200" -> [i \in 1..200 |-> "x"]
      [] text = "text of 201" -> [i \in 1..201 |-> "x"]
      [] text = "text of 250" -> [i \in 1..250 |-> "x"]

\* body[:200]
PreviewCap == 200

Preview_Whole(body) == Chars(body)

\* decision.body[:200] + '...' if len(decision.body) > 200 else decision.body
Preview(body) ==
    IF Len(Chars(body)) > PreviewCap
    THEN SubSeq(Chars(body), 1, PreviewCap) \o Chars("...")
    ELSE Chars(body)

\* .order_by(Decision.created_at.desc()); rows of equal created_at come in
\* an order the database leaves open
RECURSIVE NewestFirst(_)
NewestFirst(rows) ==
    IF rows = <<>> THEN <<>>
    ELSE LET k == CHOOSE i \in 1..Len(rows) :
                     \A j \in 1..Len(rows) : rows[i].created_at >= rows[j].created_at
         IN <<rows[k]>> \o NewestFirst(SubSeq(rows, 1, k - 1) \o SubSeq(rows, k + 1, Len(rows)))

\* _get_existing_decisions: the Decisions of the match, newest first, as
\* previews.  An exception (the select raising, len() of a body that is
\* None) is caught and answered with the empty list
GetExistingDecisions(match_id, fault) ==
    LET matching == SelectSeq(decisions, LAMBDA d : d.job_posting_match_id = match_id)
        ordered == NewestFirst(matching)
    IN IF fault \/ \E i \in 1..Len(ordered) : ordered[i].body = NULL
       THEN <<>>
       ELSE [i \in 1..Len(ordered) |->
               [id |-> ordered[i].id,
                title |-> ordered[i].title,
                decision_type |-> ordered[i].decision_type,
                created_at |-> ordered[i].created_at,
                body |-> Preview(ordered[i].body)]]

\* the ClinicianNote rows of a conversation, as the select returns them
NotesOf(conversation) == Get(conversation, "notes", <<>>)

\* _prepare_conversation_metadata: the counts and the note timestamps given
\* to ConversationMetadata(...)
PrepareConversationMetadata(messages, notes, match_id) ==
    [team_id |-> Match(match_id).team_id,
     client_id |-> Match(match_id).client_id,
     message_count |-> Len(messages),
     note_count |-> Len(notes),
     notes_start_timestamp |-> IF notes # <<>> THEN notes[1].created_at ELSE NULL,
     notes_end_timestamp |-> IF notes # <<>> THEN notes[Len(notes)].created_at ELSE NULL]

\* ConversationMetadata declares team_id and client_id as UUID and
\* notes_start_timestamp and notes_end_timestamp as datetime, none of them
\* Optional: None fails validation
ValidatesAsConversationMetadata(fields) ==
    /\ fields.team_id # NULL
    /\ fields.client_id # NULL
    /\ fields.notes_start_timestamp # NULL
    /\ fields.notes_end_timestamp # NULL

AssembleAnalysisContext(id, fault, decisions_fault) ==
    LET conversation == GetConversationData(id, fault)
    IN IF ~conversation.exists THEN NoContext
       ELSE LET match_id == GetMatchData(conversation)
                fields == PrepareConversationMetadata(MessagesOf(conversation),
                                                      NotesOf(conversation), match_id)
            IN IF match_id = NULL THEN NoContext
               ELSE IF PrepareConversationMetadataArgs # PrepareConversationMetadataParams
                    THEN NoContext                    \* TypeError, caught: return None
               ELSE IF ~ValidatesAsConversationMetadata(fields)
                    THEN NoContext                    \* ValidationError, caught
                    ELSE [some |-> TRUE,
                          conversation_id |-> id,
                          job_posting_match_id |-> match_id,
                          team_id |-> Match(match_id).team_id,
                          client_id |-> Match(match_id).client_id,
                          clinician_id |-> Match(match_id).clinician_id,
                          messages |-> MessagesOf(conversation),
                          message_count |-> Len(MessagesOf(conversation)),
                          notes |-> NotesOf(conversation),
                          existing_decisions |->
                              GetExistingDecisions(match_id, decisions_fault),
                          note_count |-> fields.note_count,
                          notes_start_timestamp |-> fields.notes_start_timestamp,
                          notes_end_timestamp |-> fields.notes_end_timestamp,
                          conversation_metadata |-> "ConversationMetadata"]

(***************************************************************************)
(* ScreeningDecisionToolOrchestrator.                                      *)
(***************************************************************************)
CreateTool == "create_intervention_decision"
CheckTool == "check_duplicate_decision"
UpdateTool == "update_conversation_status"
NotifyTool == "notify_recruiters"

\* self.tool_functions: the keys of the handler table
ToolFunctions == {CreateTool, CheckTool, UpdateTool, NotifyTool}

\* the parameters each handler declares (self apart), and those with a default
HandlerParams(tool_name) ==
    CASE tool_name = CreateTool ->
           {"db_session", "title", "body", "decision_type", "priority",
            "quoted_excerpts", "ai_reasoning", "team_id", "client_id",
            "job_posting_match_id", "clinician_id", "related_message_ids"}
      [] tool_name = CheckTool ->
           {"db_session", "conversation_id", "decision_title", "decision_type",
            "job_posting_match_id", "time_window_hours"}
      [] tool_name = UpdateTool ->
           {"db_session", "conversation_id", "status", "analysis_completed",
            "decisions_created"}
      [] tool_name = NotifyTool ->
           {"db_session", "conversation_id", "decision_id", "team_id", "client_id",
            "priority", "notification_type"}

HandlerDefaults(tool_name) ==
    CASE tool_name = CreateTool -> {}
      [] tool_name = CheckTool -> {"time_window_hours"}
      [] tool_name = UpdateTool -> {"analysis_completed", "decisions_created"}
      [] tool_name = NotifyTool -> {"notification_type"}

BindsTo_AnyKeywords(tool_name, args) == TRUE

\* tool_func(**final_tool_args): TypeError on an unexpected or a missing keyword
BindsTo(tool_name, args) ==
    /\ DOMAIN args \subseteq HandlerParams(tool_name)
    /\ (HandlerParams(tool_name) \ HandlerDefaults(tool_name)) \subseteq DOMAIN args

\* _prepare_tool_arguments: the tool-specific keywords read from the engine's input
ToolSpecificArguments(tool_name, tool_input) ==
    CASE tool_name = CreateTool ->
           [title |-> Get(tool_input, "title", NULL),
            body |-> Get(tool_input, "body", NULL),
            decision_type |-> Get(tool_input, "decision_type", NULL),
            priority |-> Get(tool_input, "priority", NULL),
            quoted_excerpts |-> Get(tool_input, "quoted_excerpts", "[]"),
            ai_reasoning |-> Get(tool_input, "ai_reasoning", NULL),
            team_id |-> Get(tool_input, "team_id", NULL),
            client_id |-> Get(tool_input, "client_id", NULL),
            job_posting_match_id |-> Get(tool_input, "job_posting_match_id", NULL),
            clinician_id |-> Get(tool_input, "clinician_id", NULL),
            related_message_ids |-> Get(tool_input, "related_message_ids", "[]")]
      [] tool_name = CheckTool ->
           [decision_title |-> Get(tool_input, "decision_title", NULL),
            decision_type |-> Get(tool_input, "decision_type", NULL),
            job_posting_match_id |-> Get(tool_input, "job_posting_match_id", NULL),
            time_window_hours |-> Get(tool_input, "time_window_hours", "24")]
      [] tool_name = UpdateTool ->
           [status |-> Get(tool_input, "status", NULL),
            analysis_completed |-> Get(tool_input, "analysis_completed", "true"),
            decisions_created |-> Get(tool_input, "decisions_created", "0")]
      [] tool_name = NotifyTool ->
           [decision_id |-> Get(tool_input, "decision_id", NULL),
            team_id |-> Get(tool_input, "team_id", NULL),
            client_id |-> Get(tool_input, "client_id", NULL),
            priority |-> Get(tool_input, "priority", NULL),
            notification_type |-> Get(tool_input, "notification_type", "new_decision")]
      [] OTHER -> tool_input

\* _prepare_tool_arguments: {**base_args, ...}
PrepareToolArguments(tool_name, tool_input, input_data) ==
    LET base_args == [db_session |-> "db_session",
                      conversation_id |-> input_data.conversation_id]
    IN ToolSpecificArguments(tool_name, tool_input) @@ base_args

\* what a handler call ends in: a returned payload or a raised exception,
\* and the Decision rows after it
Returned(payload, decs) == [raised |-> FALSE, payload |-> payload, decisions |-> decs]
Raised(exception, decs) == [raised |-> TRUE, error |-> exception, decisions |-> decs]

\* datetime.utcnow(), in hours on the clock of the model
Now == 100

\* the Decision model: the row a constructor call with these keywords stores;
\* a column the call does not assign stays NULL
DecisionRow(id, kwargs) ==
    kwargs @@ [id |-> id, team_id |-> NULL, job_posting_match_id |-> NULL,
               decision_type |-> NULL, body |-> NULL, created_at |-> Now]

\* _create_intervention_decision.  fault: the flush raises
CreateInterventionDecision(args, fault, decs) ==
    LET decision == DecisionRow(Len(decs) + 1,
                       [title |-> args.title,
                        description |-> args.body,
                        type |-> args.decision_type,
                        priority |-> args.priority,
                        client_id |-> args.client_id,
                        job_posting_id |-> args.job_posting_match_id,
                        clinician_id |-> args.clinician_id,
                        ai_rationale |-> args.ai_reasoning,
                        context_data |-> args.quoted_excerpts,
                        status |-> "pending",
                        created_by |-> args.clinician_id])
    IN IF fault THEN Raised("StoreError", decs)       \* except: raise
       ELSE Returned([decision_id |-> decision.id,
                      title |-> args.title,
                      type |-> args.decision_type,
                      priority |-> args.priority,
                      team_id |-> args.team_id,
                      client_id |-> args.client_id,
                      job_posting_match_id |-> args.job_posting_match_id],
                     Append(decs, decision))

(***************************************************************************)
(* Text.  A str is a string of the model; Chars gives its characters, on   *)
(* which lower(), split() and ILIKE work.                                  *)
(***************************************************************************)
\* str.lower(), character by character
LowerChar(c) ==
    CASE c = "A" -> "a" [] c = "B" -> "b" [] c = "S" -> "s" [] c = "H" -> "h"
      [] c = "I" -> "i" [] c = "F" -> "f" [] c = "T" -> "t" [] c = "L" -> "l"
      [] OTHER -> c

LowerChars(chars) == [i \in 1..Len(chars) |-> LowerChar(chars[i])]

\* set(str.split()): the maximal runs of characters that are no whitespace
RECURSIVE SplitWords(_)
SplitWords(chars) ==
    IF chars = <<>> THEN {}
    ELSE IF Head(chars) = " " THEN SplitWords(Tail(chars))
    ELSE LET spaces == { i \in 1..Len(chars) : chars[i] = " " }
             stop == IF spaces = {} THEN Len(chars) + 1
                     ELSE CHOOSE i \in spaces : \A k \in spaces : i <= k
         IN {SubSeq(chars, 1, stop - 1)} \cup SplitWords(SubSeq(chars, stop, Len(chars)))

\* SQL LIKE: % matches any run of characters, _ any one character
RECURSIVE Like(_, _)
Like(chars, pattern) ==
    IF pattern = <<>> THEN chars = <<>>
    ELSE IF Head(pattern) = "%"
         THEN Like(chars, Tail(pattern)) \/ (chars # <<>> /\ Like(Tail(chars), pattern))
    ELSE IF Head(pattern) = "_"
         THEN chars # <<>> /\ Like(Tail(chars), Tail(pattern))
    ELSE chars # <<>> /\ Head(chars) = Head(pattern) /\ Like(Tail(chars), Tail(pattern))

\* column.ilike(pattern): LIKE on the lower-cased value and pattern
ILike(text, pattern) == Like(LowerChars(Chars(text)), LowerChars(pattern))

\* a float that is the quotient of two lengths, as the fraction in lowest terms
RECURSIVE Gcd(_, _)
Gcd(a, b) == IF b = 0 THEN a ELSE Gcd(b, a % b)

Quotient(n, d) == [num |-> n \div Gcd(n, d), den |-> d \div Gcd(n, d)]

CalculateTitleSimilarity_OfFirst(title1, title2) ==
    LET words1 == SplitWords(LowerChars(Chars(title1)))
        words2 == SplitWords(LowerChars(Chars(title2)))
    IN IF words1 = {} /\ words2 = {} THEN Quotient(1, 1)
       ELSE IF words1 = {} \/ words2 = {} THEN Quotient(0, 1)
       ELSE Quotient(Cardinality(words1 \cap words2), Cardinality(words1))

\* _calculate_title_similarity
CalculateTitleSimilarity(title1, title2) ==
    LET words1 == SplitWords(LowerChars(Chars(title1)))
        words2 == SplitWords(LowerChars(Chars(title2)))
        intersection == words1 \cap words2
        union == words1 \cup words2
    IN IF words1 = {} /\ words2 = {} THEN Quotient(1, 1)
       ELSE IF words1 = {} \/ words2 = {} THEN Quotient(0, 1)
       ELSE IF union # {}
            THEN Quotient(Cardinality(intersection), Cardinality(union))
            ELSE Quotient(0, 1)

\* the int a time_window_hours value stands for; None and other values are
\* no operand of timedelta(hours=...)
WindowHours == {"1", "24", "48"}
HoursOf(v) == CASE v = "1" -> 1 [] v = "24" -> 24 [] v = "48" -> 48

\* .limit(5)
DuplicateLimit == 5

CheckDuplicateDecision_Raises(args, fault, decs) ==
    IF fault THEN Raised("StoreError", decs)
    ELSE Returned([is_duplicate |-> FALSE, duplicate_count |-> 0,
                   duplicate_decisions |-> <<>>,
                   time_window_hours |-> args.time_window_hours], decs)

\* _check_duplicate_decision.  fault: the select raises.  Every exception
\* is caught and answered with a payload
CheckDuplicateDecision(args, fault, decs) ==
    IF \/ args.time_window_hours \notin WindowHours   \* timedelta: TypeError
       \/ args.decision_title = NULL                  \* None.lower(): AttributeError
       \/ fault
    THEN Returned([is_duplicate |-> FALSE, duplicate_count |-> 0,
                   duplicate_decisions |-> <<>>, error |-> "Exception"], decs)
    ELSE LET cutoff_time == Now - HoursOf(args.time_window_hours)
             pattern == <<"%">> \o LowerChars(Chars(args.decision_title)) \o <<"%">>
             matching == SelectSeq(decs, LAMBDA d :
                            /\ d.job_posting_match_id = args.job_posting_match_id
                            /\ d.decision_type = args.decision_type
                            /\ d.created_at >= cutoff_time
                            /\ d.title # NULL
                            /\ ILike(d.title, pattern))
             ordered == NewestFirst(matching)
             existing_decisions ==
                SubSeq(ordered, 1, IF Len(ordered) < DuplicateLimit
                                   THEN Len(ordered) ELSE DuplicateLimit)
         IN Returned([is_duplicate |-> Len(existing_decisions) > 0,
                      duplicate_count |-> Len(existing_decisions),
                      duplicate_decisions |->
                         [i \in 1..Len(existing_decisions) |->
                            [id |-> existing_decisions[i].id,
                             title |-> existing_decisions[i].title,
                             created_at |-> existing_decisions[i].created_at,
                             similarity_score |->
                                CalculateTitleSimilarity(args.decision_title,
                                                         existing_decisions[i].title)]],
                      time_window_hours |-> args.time_window_hours], decs)

\* Conversation declares no metadata column: the attribute read on a row is
\* the declarative base's MetaData registry, which is no dict
MetadataAttr(conversation) == "MetaData"

UpdateConversationStatus_MissingOk(args, fault, decs) ==
    IF fault THEN Raised("StoreError", decs)
    ELSE IF ~SelectConversation(args.conversation_id).exists
         THEN Returned([conversation_id |-> args.conversation_id,
                        status |-> args.status], decs)
         ELSE Raised("AttributeError", decs)

\* _update_conversation_status.  fault: the select raises
UpdateConversationStatus(args, fault, decs) ==
    IF fault THEN Raised("StoreError", decs)
    ELSE LET conversation == SelectConversation(args.conversation_id)
         IN IF ~conversation.exists
            THEN Raised("ValueError: Conversation not found", decs)
            ELSE IF MetadataAttr(conversation) # "dict"
                 THEN Raised("AttributeError", decs)  \* MetaData has no update()
                 ELSE Returned([conversation_id |-> args.conversation_id,
                                status |-> args.status,
                                analysis_completed |-> args.analysis_completed,
                                decisions_created |-> args.decisions_created], decs)

NotifyRecruiters_DropsNewest(args, decs) ==
    Returned([notification_sent |-> TRUE, recipients |-> <<>>],
             IF decs = <<>> THEN decs ELSE SubSeq(decs, 1, Len(decs) - 1))

\* _notify_recruiters
NotifyRecruiters(args, decs) ==
    Returned([notification_sent |-> TRUE,
              notification_type |-> args.notification_type,
              decision_id |-> args.decision_id,
              team_id |-> args.team_id,
              client_id |-> args.client_id,
              priority |-> args.priority,
              recipients |-> <<>>], decs)

\* tool_func(**final_tool_args)
CallHandler(tool_name, args, fault, decs) ==
    IF ~BindsTo(tool_name, args) THEN Raised("TypeError", decs)
    ELSE CASE tool_name = CreateTool -> CreateInterventionDecision(args, fault, decs)
           [] tool_name = CheckTool -> CheckDuplicateDecision(args, fault, decs)
           [] tool_name = UpdateTool -> UpdateConversationStatus(args, fault, decs)
           [] tool_name = NotifyTool -> NotifyRecruiters(args, decs)

(***************************************************************************)
(* execute_tool: the result record (without execution_time), the Decision  *)
(* rows after the call, and whether an exception leaves execute_tool.      *)
(***************************************************************************)
Executed(result, decs) == [result |-> result, decisions |-> decs, propagates |-> FALSE]

Propagated(decs) ==
    [result |-> [success |-> FALSE], decisions |-> decs, propagates |-> TRUE]

ExecuteTool_NoExcept(tool_block, input_data, fault, decs) ==
    LET tool_name == Get(tool_block, "name", NULL)
        tool_input == Get(tool_block, "input", <<>>)
        tool_id == Get(tool_block, "id", NULL)
    IN IF tool_name \notin ToolFunctions
       THEN Executed([success |-> FALSE, error |-> "Tool function not found"], decs)
       ELSE LET final_tool_args == PrepareToolArguments(tool_name, tool_input, input_data)
                out == CallHandler(tool_name, final_tool_args, fault, decs)
            IN IF out.raised
               THEN Propagated(out.decisions)
               ELSE Executed([success |-> TRUE, result |-> out.payload,
                              tool_name |-> tool_name, tool_id |-> tool_id], out.decisions)

ExecuteTool_UnknownRaises(tool_block, input_data, fault, decs) ==
    LET tool_name == Get(tool_block, "name", NULL)
        tool_input == Get(tool_block, "input", <<>>)
        tool_id == Get(tool_block, "id", NULL)
    IN IF tool_name \notin ToolFunctions
       THEN Propagated(decs)
       ELSE LET final_tool_args == PrepareToolArguments(tool_name, tool_input, input_data)
                out == CallHandler(tool_name, final_tool_args, fault, decs)
            IN IF out.raised
               THEN Executed([success |-> FALSE, error |-> out.error,
                              tool_name |-> tool_name, tool_id |-> tool_id], out.decisions)
               ELSE Executed([success |-> TRUE, result |-> out.payload,
                              tool_name |-> tool_name, tool_id |-> tool_id], out.decisions)

ExecuteTool(tool_block, input_data, fault, decs) ==
    LET tool_name == Get(tool_block, "name", NULL)
        tool_input == Get(tool_block, "input", <<>>)
        tool_id == Get(tool_block, "id", NULL)
    IN IF tool_name \notin ToolFunctions
       THEN Executed([success |-> FALSE, error |-> "Tool function not found"], decs)
       ELSE LET final_tool_args == PrepareToolArguments(tool_name, tool_input, input_data)
                out == CallHandler(tool_name, final_tool_args, fault, decs)
            IN IF out.raised
               THEN Executed([success |-> FALSE, error |-> out.error,
                              tool_name |-> tool_name, tool_id |-> tool_id], out.decisions)
               ELSE Executed([success |-> TRUE, result |-> out.payload,
                              tool_name |-> tool_name, tool_id |-> tool_id], out.decisions)

(***************************************************************************)
(* The reasoning engine: an untrusted producer of content blocks.          *)
(***************************************************************************)
DecisionTypes ==
    {"clinician_question", "information_request", "special_accommodation",
     "scheduling_conflict"}
DecisionPriorities == {"low", "medium", "high"}

Without(rec, key) == [k \in DOMAIN rec \ {key} |-> rec[k]]

\* a create_intervention_decision input naming the scope of match m
CreateInput(m) ==
    [title |-> "Shift Swap", body |-> "body", decision_type |-> "clinician_question",
     priority |-> "high", quoted_excerpts |-> "[]", ai_reasoning |-> "reasoning",
     team_id |-> Match(m).team_id, client_id |-> Match(m).client_id,
     job_posting_match_id |-> m, clinician_id |-> Match(m).clinician_id]

CreateInputs ==
    { CreateInput(m) : m \in MatchIds }
    \cup { [CreateInput("m1") EXCEPT !.decision_type = "urgent_escalation"],
           [CreateInput("m1") EXCEPT !.priority = "critical"],
           Without(CreateInput("m1"), "team_id"),
           Without(CreateInput("m1"), "title") }

CheckInput ==
    [decision_title |-> "shift", decision_type |-> "clinician_question",
     job_posting_match_id |-> "m1"]
UpdateInput == [status |-> "analyzed", analysis_completed |-> "true", decisions_created |-> "1"]
NotifyInput == [decision_id |-> "1", team_id |-> "t1", client_id |-> "cl1", priority |-> "high"]

\* the tool_use blocks the engine answers with, ids apart
ToolUses ==
    { [type |-> "tool_use", name |-> CreateTool, input |-> i] :
        i \in {CreateInput("m1"),
               [CreateInput("m1") EXCEPT !.decision_type = "urgent_escalation"]} }
    \cup { [type |-> "tool_use", name |-> CheckTool, input |-> i] :
        i \in {CheckInput, Without(CheckInput, "decision_title")} }
    \cup { [type |-> "tool_use", name |-> UpdateTool, input |-> UpdateInput] }
    \cup { [type |-> "tool_use", name |-> NotifyTool, input |-> i] :
        i \in {NotifyInput, Without(NotifyInput, "decision_id")} }
    \cup { [type |-> "tool_use", name |-> "send_email", input |-> NotifyInput] }

TextBlock == [type |-> "text"]

\* the correlation id of the block at position i of a response
ToolUseId(i) ==
    CASE i = 1 -> "toolu_01" [] i = 2 -> "toolu_02" [] i = 3 -> "toolu_03"
      [] i = 4 -> "toolu_04" [] OTHER -> "toolu_05"

WithIds(shapes) ==
    [i \in 1..Len(shapes) |->
        IF shapes[i].type = "tool_use"
        THEN shapes[i] @@ [id |-> ToolUseId(i)]
        ELSE shapes[i]]

\* response.content of one messages.create call
Responses ==
    UNION { { WithIds(s) : s \in [1..n -> ToolUses \cup {TextBlock}] } : n \in 0..MaxBlocks }

(***************************************************************************)
(* The calls in progress.                                                  *)
(***************************************************************************)
NoResult == [returned |-> FALSE]

\* ConversationAnalysisResult (processing_time and the empty decisions list apart)
AnalysisResult(completed, created, message) ==
    [returned |-> TRUE, analysis_completed |-> completed,
     decisions_created |-> created, error_message |-> message]

IdleRun ==
    [pc |-> "idle", entry |-> NULL, conversation_id |-> NULL, match_id |-> NULL,
     force |-> FALSE, checked |-> FALSE, flag_at_check |-> "absent",
     check_fault |-> FALSE, assemblies |-> 0, assembly_fault |-> FALSE,
     context |-> NoContext,
     engine_calls |-> 0, response |-> <<>>, idx |-> 0, inflight |-> 0,
     started |-> <<>>, tool_results |-> <<>>, decisions_created |-> 0,
     created |-> {}, conduct_result |-> "pending", result |-> NoResult]

OffRun == [IdleRun EXCEPT !.pc = "off"]

\* ConversationAnalysisInput of a run
InputData(r) ==
    [conversation_id |-> run[r].conversation_id, match_id |-> run[r].match_id,
     force_reanalysis |-> run[r].force]

\* no helper is called on its own
NoCall == [fn |-> "none"]

Init ==
    /\ conversations \in [ConvIds -> ConversationRows]
    /\ conversations["c2"] = AbsentRow
    /\ decisions = <<>>
    /\ run = [r \in RunIds |-> IF r = "r1" THEN IdleRun ELSE OffRun]
    /\ call = NoCall

Set(r, rec) == run' = [run EXCEPT ![r] = rec]

(***************************************************************************)
(* ScreeningDecisionAgent.analyze_conversation.                            *)
(***************************************************************************)
\* the call: ConversationAnalysisInput(...) validates its UUID fields; when
\* it raises, the except clause reads input_data, which is unbound, and the
\* UnboundLocalError leaves analyze_conversation
AnalyzeConversation(r) ==
    /\ run[r].pc = "idle"
    /\ \E conversation_id \in ConvIds \cup {"not-a-uuid"}, match_id \in MatchIds,
          force_reanalysis \in BOOLEAN :
         Set(r, [run[r] EXCEPT
            !.entry = "analyze",
            !.conversation_id = conversation_id,
            !.match_id = match_id,
            !.force = force_reanalysis,
            !.pc = IF conversation_id \notin ConvIds THEN "escaped"
                   ELSE IF ConsultsFlag(force_reanalysis) THEN "check"
                   ELSE "assemble"])
    /\ UNCHANGED <<conversations, decisions, call>>

\* await self._check_already_analyzed(...) and the test of its value
IdempotencyCheck(r) ==
    /\ run[r].pc = "check"
    /\ \E fault \in BOOLEAN :
         LET already_analyzed == CheckAlreadyAnalyzed(run[r].conversation_id, fault)
             seen == [run[r] EXCEPT !.checked = TRUE,
                                    !.check_fault = fault,
                                    !.flag_at_check = StoredFlag(run[r].conversation_id)]
         IN IF Truthy(already_analyzed)
            THEN Set(r, [seen EXCEPT
                    !.pc = "done",
                    !.result = AnalysisResult(TRUE, 0, "Already analyzed")])
            ELSE Set(r, [seen EXCEPT !.pc = "assemble"])
    /\ UNCHANGED <<conversations, decisions, call>>

ContextAssembly_Marks(r) ==
    /\ run[r].pc = "assemble"
    /\ \E fault \in BOOLEAN, decisions_fault \in BOOLEAN :
         LET context == AssembleAnalysisContext(run[r].conversation_id, fault,
                                                decisions_fault)
             tried == [run[r] EXCEPT !.assemblies = @ + 1, !.assembly_fault = fault]
         IN IF ~context.some
            THEN Set(r, [tried EXCEPT
                    !.pc = "done",
                    !.result = AnalysisResult(FALSE, 0,
                                  "Failed to assemble conversation context")])
            ELSE Set(r, [tried EXCEPT !.pc = "conduct", !.context = context])
    /\ conversations' = [conversations EXCEPT ![run[r].conversation_id] =
                            IF @.exists
                            THEN [@ EXCEPT !.context = [kind |-> "dict"]]
                            ELSE @]
    /\ UNCHANGED <<decisions, call>>

\* await context_manager.assemble_analysis_context(db_session)
ContextAssembly(r) ==
    /\ run[r].pc = "assemble"
    /\ \E fault \in BOOLEAN, decisions_fault \in BOOLEAN :
         LET context == AssembleAnalysisContext(run[r].conversation_id, fault,
                                                decisions_fault)
             tried == [run[r] EXCEPT !.assemblies = @ + 1, !.assembly_fault = fault]
         IN IF ~context.some
            THEN Set(r, [tried EXCEPT
                    !.pc = "done",
                    !.result = AnalysisResult(FALSE, 0,
                                  "Failed to assemble conversation context")])
            ELSE Set(r, [tried EXCEPT !.pc = "conduct", !.context = context])
    /\ UNCHANGED <<conversations, decisions, call>>

(***************************************************************************)
(* ScreeningDecisionAgent._conduct_analysis.                               *)
(***************************************************************************)
\* _conduct_analysis called with a context of the caller's: one whose
\* conversation_metadata is a dict, or an AnalysisContext
ConductAnalysisCall(r) ==
    /\ run[r].pc = "idle"
    /\ \E metadata \in {"dict", "ConversationMetadata"} :
         Set(r, [run[r] EXCEPT
            !.entry = "conduct",
            !.conversation_id = "c1",
            !.match_id = "m1",
            !.context = [some |-> TRUE, conversation_id |-> "c1",
                         conversation_metadata |-> metadata],
            !.pc = "conduct"])
    /\ UNCHANGED <<conversations, decisions, call>>

ConductReturns_Unexplained(rec, analysis_result) ==
    IF rec.entry = "analyze"
    THEN [rec EXCEPT
            !.pc = "done",
            !.conduct_result = IF analysis_result.some THEN "dict" ELSE "None",
            !.result = AnalysisResult(analysis_result.some,
                          IF analysis_result.some
                          THEN analysis_result.decisions_created ELSE 0,
                          NULL)]
    ELSE [rec EXCEPT !.pc = "done",
                     !.conduct_result = IF analysis_result.some THEN "dict" ELSE "None"]

\* what the caller of _conduct_analysis does with its value
ConductReturns(rec, analysis_result) ==
    IF rec.entry = "analyze"
    THEN IF analysis_result.some
         THEN [rec EXCEPT
                 !.pc = "done",
                 !.conduct_result = "dict",
                 !.result = AnalysisResult(TRUE, analysis_result.decisions_created, NULL)]
         ELSE [rec EXCEPT
                 !.pc = "done",
                 !.conduct_result = "None",
                 !.result = AnalysisResult(FALSE, 0, "Analysis failed to complete")]
    ELSE [rec EXCEPT !.pc = "done",
                     !.conduct_result = IF analysis_result.some THEN "dict" ELSE "None"]

\* get_conversation_analysis_prompt reads conversation_metadata.get(...): a
\* ConversationMetadata has no get, and the AttributeError is caught
PromptRaises(context) == context.conversation_metadata # "dict"

\* the prompt and the messages.create call
EngineInvocation(r) ==
    /\ run[r].pc = "conduct"
    /\ IF PromptRaises(run[r].context)
       THEN Set(r, ConductReturns(run[r], [some |-> FALSE]))
       ELSE \/ Set(r, ConductReturns([run[r] EXCEPT !.engine_calls = @ + 1],
                                     [some |-> FALSE]))
            \/ \E content \in Responses :
                 Set(r, [run[r] EXCEPT !.engine_calls = @ + 1,
                                       !.response = content,
                                       !.idx = 1,
                                       !.pc = "tools"])
    /\ UNCHANGED <<conversations, decisions, call>>

AwaitsEach_Not(inflight) == TRUE

\* result = await self.tool_orchestrator.execute_tool(...): the loop body
\* is suspended until the call returns
AwaitsEach(inflight) == inflight = 0

\* for block in response.content
NextBlock(idx) == idx + 1

CountsAsCreated_AnySuccess(result) == Get(result, "success", FALSE)

\* if result.get('success') and result.get('tool_name') == 'create_intervention_decision'
CountsAsCreated(result) ==
    Get(result, "success", FALSE) /\ Get(result, "tool_name", NULL) = CreateTool

\* a block that is no tool_use is passed over
PassBlock(r) ==
    /\ run[r].pc = "tools"
    /\ AwaitsEach(run[r].inflight)
    /\ run[r].idx <= Len(run[r].response)
    /\ run[r].response[run[r].idx].type # "tool_use"
    /\ Set(r, [run[r] EXCEPT !.idx = NextBlock(@)])
    /\ UNCHANGED <<conversations, decisions, call>>

\* {"name": block.name, "input": block.input, "id": block.id}: the reads
\* raise AttributeError on a block that lacks one of the attributes
HasToolUseAttributes(block) == {"name", "input", "id"} \subseteq DOMAIN block

\* execute_tool is called for the block
ToolStart(r) ==
    /\ run[r].pc = "tools"
    /\ AwaitsEach(run[r].inflight)
    /\ run[r].idx <= Len(run[r].response)
    /\ run[r].response[run[r].idx].type = "tool_use"
    /\ HasToolUseAttributes(run[r].response[run[r].idx])
    /\ Set(r, [run[r] EXCEPT !.inflight = run[r].idx,
                             !.started = Append(@, run[r].idx)])
    /\ UNCHANGED <<conversations, decisions, call>>

\* execute_tool returns; the result is appended and counted
ToolReturn(r) ==
    /\ run[r].pc = "tools"
    /\ run[r].inflight # 0
    /\ \E fault \in BOOLEAN :
         LET block == run[r].response[run[r].inflight]
             out == ExecuteTool(block, InputData(r), fault, decisions)
         IN IF out.propagates
            THEN /\ Set(r, ConductReturns([run[r] EXCEPT !.inflight = 0],
                                          [some |-> FALSE]))
                 /\ decisions' = out.decisions
            ELSE /\ Set(r, [run[r] EXCEPT
                        !.tool_results = Append(@, out.result),
                        !.decisions_created =
                            IF CountsAsCreated(out.result) THEN @ + 1 ELSE @,
                        !.created = @ \cup { out.decisions[i].id :
                                        i \in (Len(decisions) + 1)..Len(out.decisions) },
                        !.inflight = 0,
                        !.idx = NextBlock(run[r].inflight)])
                 /\ decisions' = out.decisions
    /\ UNCHANGED <<conversations, call>>

\* the loop is over: _conduct_analysis returns its dict
ConductFinish(r) ==
    /\ run[r].pc = "tools"
    /\ run[r].inflight = 0
    /\ run[r].idx > Len(run[r].response)
    /\ Set(r, ConductReturns(run[r],
                [some |-> TRUE, decisions_created |-> run[r].decisions_created]))
    /\ UNCHANGED <<conversations, decisions, call>>

(***************************************************************************)
(* _create_intervention_decision called with the keywords it declares.     *)
(***************************************************************************)
CreateHandlerCall(r) ==
    /\ run[r].pc = "idle"
    /\ \E tool_input \in CreateInputs, match_id \in MatchIds, fault \in BOOLEAN :
         LET args == ToolSpecificArguments(CreateTool, tool_input)
                        @@ [db_session |-> "db_session"]
             out == CallHandler(CreateTool, args, fault, decisions)
         IN /\ Set(r, [run[r] EXCEPT
                   !.entry = "handler",
                   !.conversation_id = "c1",
                   !.match_id = match_id,
                   !.response = <<[type |-> "tool_use", name |-> CreateTool,
                                   input |-> tool_input, id |-> ToolUseId(1)]>>,
                   !.conduct_result = IF out.raised THEN "raised" ELSE "returned",
                   !.created = { out.decisions[i].id :
                                   i \in (Len(decisions) + 1)..Len(out.decisions) },
                   !.pc = "done"])
            /\ decisions' = out.decisions
    /\ UNCHANGED <<conversations, call>>

Next ==
    \E r \in RunIds :
        \/ AnalyzeConversation(r)
        \/ IdempotencyCheck(r)
        \/ ContextAssembly(r)
        \/ ConductAnalysisCall(r)
        \/ EngineInvocation(r)
        \/ PassBlock(r)
        \/ ToolStart(r)
        \/ ToolReturn(r)
        \/ ConductFinish(r)
        \/ CreateHandlerCall(r)

Spec == Init /\ [][Next]_vars

(***************************************************************************)
(* The runs of analyze_conversation up to context assembly, over           *)
(* conversations with messages and with match references that resolve,     *)
(* dangle ("m9" names no JobPostingMatch) or are missing.                  *)
(***************************************************************************)
MaxMessages == 2    \* most Message rows of a conversation

MessageLists == UNION { [1..n -> {"message"}] : n \in 0..MaxMessages }

AssemblyContexts ==
    ContextValues \cup { [kind |-> "dict", match_id |-> m] : m \in {"m9", "m3", "m4"} }

AssemblyRows ==
    {AbsentRow}
    \cup { [exists |-> TRUE, context |-> c, messages |-> m] :
             c \in AssemblyContexts, m \in MessageLists }

InitAssembly ==
    /\ conversations \in [ConvIds -> AssemblyRows]
    /\ conversations["c2"] = AbsentRow
    /\ decisions = <<>>
    /\ run = [r \in RunIds |-> IF r = "r1" THEN IdleRun ELSE OffRun]
    /\ call = NoCall

NextAssembly ==
    \E r \in RunIds :
        \/ AnalyzeConversation(r)
        \/ IdempotencyCheck(r)
        \/ ContextAssembly(r)

SpecAssembly == InitAssembly /\ [][NextAssembly]_vars

(***************************************************************************)
(* Vocabulary of the properties.                                           *)
(***************************************************************************)
\* the positions of the tool_use blocks of a response, in order
ToolUsePositions(content) ==
    SelectSeq([i \in 1..Len(content) |-> i], LAMBDA i : content[i].type = "tool_use")

IsPrefix(s, t) == Len(s) <= Len(t) /\ \A i \in 1..Len(s) : s[i] = t[i]

\* the block the k-th result record of run r answers
Invocation(r, k) == run[r].response[run[r].started[k]]

\* the engine answered and _conduct_analysis has returned
ToolStageOver(r) == run[r].pc = "done" /\ run[r].entry \in {"analyze", "conduct"} /\ run[r].idx > 0

\* the result record reports an exception raised while the handler was called
ReportsException(result) ==
    Get(result, "error", NULL) \in
        {"TypeError", "StoreError", "AttributeError", "ValueError: Conversation not found"}

(***************************************************************************)
(* C1.  A non-forced analyze_conversation whose conversation has the       *)
(* completion flag stored as true when the idempotency check runs returns  *)
(* analysis_completed=true, decisions_created=0 and a non-null message,    *)
(* without invoking the engine or executing a tool.                        *)
(*                                                                         *)
(* C1_Original states this for every check; C1_SkipWhenFlagRead states it  *)
(* for the checks whose read of the conversation does not raise.           *)
(***************************************************************************)
SkippedOutcome(r) ==
    /\ run[r].pc = "done"
    /\ run[r].result.returned
    /\ run[r].result.analysis_completed
    /\ run[r].result.decisions_created = 0
    /\ run[r].result.error_message # NULL
    /\ run[r].engine_calls = 0
    /\ run[r].started = <<>>

C2_ForcedBypassesFlag ==
    \A r \in RunIds :
        (run[r].entry = "analyze" /\ run[r].force /\ run[r].pc \notin {"idle", "escaped"})
        => /\ ~run[r].checked
           /\ run[r].pc # "check"
           /\ run[r].pc = "done" => /\ run[r].assemblies = 1
                                    /\ run[r].result.returned
                                    /\ run[r].result.error_message # "Already analyzed"

C2_Witness ==
    \E r \in RunIds :
        /\ run[r].entry = "analyze" /\ run[r].force
        /\ StoredFlag(run[r].conversation_id) = "true"
        /\ run[r].pc = "done" /\ run[r].assemblies = 1

(***************************************************************************)
(* C3.  Every Decision persisted by create_intervention_decision carries   *)
(* a non-null team_id, client_id and match id, equal to those of the Match *)
(* of the conversation being analyzed, whatever arguments the engine       *)
(* supplies.                                                               *)
(***************************************************************************)
C3_DecisionScopeFromMatch ==
    \A r \in RunIds : \A i \in 1..Len(decisions) :
        decisions[i].id \in run[r].created
        => /\ decisions[i].team_id = Match(run[r].match_id).team_id
           /\ decisions[i].client_id = Match(run[r].match_id).client_id
           /\ decisions[i].job_posting_id = run[r].match_id

(***************************************************************************)
(* C4.  A create_intervention_decision whose decision_type or priority is  *)
(* outside its enumeration fails and leaves the persisted Decisions        *)
(* unchanged.                                                              *)
(***************************************************************************)
OutsideEnumerations(tool_input) ==
    \/ Get(tool_input, "decision_type", NULL) \notin DecisionTypes
    \/ Get(tool_input, "priority", NULL) \notin DecisionPriorities

RequiredFields(tool_name) ==
    CASE tool_name = CreateTool ->
           {"title", "body", "decision_type", "priority", "quoted_excerpts",
            "ai_reasoning", "team_id", "client_id", "job_posting_match_id",
            "clinician_id"}
      [] tool_name = CheckTool -> {"decision_title", "decision_type", "job_posting_match_id"}
      [] tool_name = UpdateTool -> {"status", "analysis_completed", "decisions_created"}
      [] tool_name = NotifyTool -> {"decision_id", "team_id", "client_id", "priority"}

LacksRequired(block) ==
    /\ block.name \in ToolFunctions
    /\ ~(RequiredFields(block.name) \subseteq DOMAIN block.input)

C5_MissingRequiredFails ==
    \A r \in RunIds :
        /\ \A k \in 1..Len(run[r].tool_results) :
             LacksRequired(Invocation(r, k)) => ~run[r].tool_results[k].success
        /\ ( /\ run[r].entry = "handler" /\ run[r].pc = "done"
             /\ LacksRequired(run[r].response[1]) )
           => run[r].conduct_result = "raised" /\ run[r].created = {}

(***************************************************************************)
(* C6.  With N tool_use blocks in one response, a block whose execution    *)
(* raises yields a result with success=false, every other block is still   *)
(* executed exactly once, and there are N result records.                  *)
(***************************************************************************)
C6_FailureIsolated ==
    \A r \in RunIds :
        ToolStageOver(r)
        => /\ run[r].conduct_result = "dict"
           /\ run[r].started = ToolUsePositions(run[r].response)
           /\ Len(run[r].tool_results) = Len(ToolUsePositions(run[r].response))
           /\ \A k \in 1..Len(run[r].tool_results) :
                /\ Get(run[r].tool_results[k], "tool_id", Invocation(r, k).id)
                      = Invocation(r, k).id
                /\ ReportsException(run[r].tool_results[k])
                      => ~run[r].tool_results[k].success

C6_Witness ==
    \E r \in RunIds :
        /\ ToolStageOver(r)
        /\ Len(run[r].tool_results) = 3
        /\ run[r].tool_results[1].success
        /\ ReportsException(run[r].tool_results[2])
        /\ run[r].tool_results[2].error = "StoreError"
        /\ run[r].tool_results[3].success

(***************************************************************************)
(* C7.  When the tool stage of a run is over, decisions_created is the     *)
(* number of invocations named create_intervention_decision whose result   *)
(* reports success; failed creates, unknown tools and the other three      *)
(* tools add nothing.                                                      *)
(***************************************************************************)
SuccessfulCreates(r) ==
    { k \in 1..Len(run[r].tool_results) :
        Invocation(r, k).name = CreateTool /\ run[r].tool_results[k].success }

C7_CountsSuccessfulCreates ==
    \A r \in RunIds :
        ToolStageOver(r)
        => /\ run[r].decisions_created = Cardinality(SuccessfulCreates(r))
           /\ run[r].result.returned
                => run[r].result.decisions_created = Cardinality(SuccessfulCreates(r))

C7_Witness ==
    \E r \in RunIds :
        /\ ToolStageOver(r)
        /\ \E k \in 1..Len(run[r].tool_results) :
              Invocation(r, k).name = CreateTool /\ ~run[r].tool_results[k].success
        /\ \E k \in 1..Len(run[r].tool_results) :
              Invocation(r, k).name = NotifyTool /\ run[r].tool_results[k].success
        /\ \E k \in 1..Len(run[r].tool_results) :
              Invocation(r, k).name \notin ToolFunctions

(***************************************************************************)
(* C8.  Within a run the tool_use blocks are executed in the order the     *)
(* engine returned them, one at a time: an invocation starts only after    *)
(* the one before it has returned.                                         *)
(***************************************************************************)
C8_InOrderOneAtATime ==
    \A r \in RunIds :
        /\ IsPrefix(run[r].started, ToolUsePositions(run[r].response))
        /\ IF run[r].inflight = 0
           THEN Len(run[r].started) = Len(run[r].tool_results)
           ELSE /\ Len(run[r].started) = Len(run[r].tool_results) + 1
                /\ run[r].started[Len(run[r].started)] = run[r].inflight

C8_Witness ==
    \E r \in RunIds :
        /\ run[r].entry = "conduct"
        /\ Len(run[r].started) = 3
        /\ Len(run[r].tool_results) = 2
        /\ run[r].inflight = 3

(***************************************************************************)
(* C9.  An invocation whose tool name is none of the four handlers yields  *)
(* success=false, changes no stored state, and the remaining invocations   *)
(* of the batch are still executed.                                        *)
(***************************************************************************)
UnknownToolInFlight(r) ==
    /\ run[r].pc = "tools"
    /\ run[r].inflight # 0
    /\ run[r].response[run[r].inflight].name \notin ToolFunctions

C9_UnknownToolState ==
    \A r \in RunIds :
        /\ \A k \in 1..Len(run[r].tool_results) :
             Invocation(r, k).name \notin ToolFunctions
             => ~run[r].tool_results[k].success
        /\ ToolStageOver(r)
             => /\ run[r].conduct_result = "dict"
                /\ run[r].started = ToolUsePositions(run[r].response)

C9_UnknownToolFrame ==
    \A r \in RunIds :
        (UnknownToolInFlight(r) /\ run'[r] # run[r])
        => /\ decisions' = decisions
           /\ conversations' = conversations

C9_UnknownToolIsolated == []C9_UnknownToolState /\ [][C9_UnknownToolFrame]_vars

C9_Witness ==
    \E r \in RunIds :
        /\ ToolStageOver(r)
        /\ Len(run[r].tool_results) >= 2
        /\ Invocation(r, 1).name \notin ToolFunctions
        /\ run[r].tool_results[2].success

(***************************************************************************)
(* C10.  Every result record of execute_tool carries a success flag, the   *)
(* tool name and the correlation id of the invocation it answers, and an   *)
(* error text when success is false.                                       *)
(***************************************************************************)
C10_UniformResultRecord ==
    \A r \in RunIds : \A k \in 1..Len(run[r].tool_results) :
        LET result == run[r].tool_results[k]
        IN /\ "success" \in DOMAIN result
           /\ Get(result, "tool_name", NULL) = Invocation(r, k).name
           /\ Get(result, "tool_id", NULL) = Invocation(r, k).id
           /\ ~result.success => Get(result, "error", NULL) # NULL

(***************************************************************************)
(* C11.  analyze_conversation always ends by returning a result record and *)
(* lets no exception reach its caller, whichever stage raises, a failure   *)
(* while the run's input is built included; an exception gives a result    *)
(* with analysis_completed=false and the exception's message.              *)
(***************************************************************************)
C11_NeverEscapes ==
    \A r \in RunIds :
        run[r].entry = "analyze"
        => /\ run[r].pc # "escaped"
           /\ run[r].pc = "done" => run[r].result.returned

(***************************************************************************)
(* C12.  In a run that holds the AnalysisContext a successful assembly     *)
(* returns, the engine is invoked exactly once, after assembly and before  *)
(* any tool is executed; no engine call follows tool execution, and tools  *)
(* are executed only from that one response.                               *)
(***************************************************************************)
\* the run holds a context as assemble_analysis_context builds it
HoldsAssembledContext(r) ==
    /\ run[r].context.some
    /\ run[r].context.conversation_metadata = "ConversationMetadata"

C12_EngineOnceAfterAssembly ==
    \A r \in RunIds :
        /\ run[r].engine_calls <= 1
        /\ run[r].started # <<>> => run[r].engine_calls = 1
        /\ (HoldsAssembledContext(r) /\ run[r].pc = "done") => run[r].engine_calls = 1

(***************************************************************************)
(* C13.  When the conversation exists but carries no match reference, or   *)
(* its reference names no Match, assembly fails: the run returns           *)
(* analysis_completed=false with decisions_created=0 and an error message, *)
(* and the engine is not invoked in that run.                              *)
(***************************************************************************)
\* the stored conversation has no match reference, or one that names no Match
UnresolvableMatch(id) ==
    LET row == SelectConversation(id)
    IN /\ row.exists
       /\ \/ row.context.kind # "dict"
          \/ "match_id" \notin DOMAIN row.context
          \/ row.context.match_id \notin JobPostingMatches

C13_NoMatchNoEngine ==
    \A r \in RunIds :
        ( /\ run[r].entry = "analyze" /\ run[r].assemblies = 1
          /\ UnresolvableMatch(run[r].conversation_id) )
        => /\ run[r].pc = "done"
           /\ run[r].context = NoContext
           /\ run[r].result.returned
           /\ ~run[r].result.analysis_completed
           /\ run[r].result.decisions_created = 0
           /\ run[r].result.error_message # NULL
           /\ run[r].engine_calls = 0

C13_Witness ==
    \E r \in RunIds :
        /\ run[r].entry = "analyze" /\ run[r].assemblies = 1
        /\ SelectConversation(run[r].conversation_id).exists
        /\ SelectConversation(run[r].conversation_id).context.kind = "dict"
        /\ Get(SelectConversation(run[r].conversation_id).context, "match_id", NULL) = "m9"
        /\ run[r].pc = "done"
        /\ ~run[r].result.analysis_completed

(***************************************************************************)
(* C14.  For a conversation that exists, is not flagged as analyzed and    *)
(* whose stored match reference resolves to a Match with a team and a      *)
(* client, a run whose engine response holds exactly one                   *)
(* create_intervention_decision call with valid arguments ends with        *)
(* analysis_completed=true and decisions_created=1, and one Decision is    *)
(* persisted.                                                              *)
(***************************************************************************)
\* the conversation is stored, unflagged, and refers to the Match m
AnalyzableFor(id, m) ==
    LET row == SelectConversation(id)
    IN /\ row.exists
       /\ row.context.kind = "dict"
       /\ Get(row.context, "post_analysis_completed", "false") = "false"
       /\ Get(row.context, "match_id", NULL) = m
       /\ m \in MatchIds

\* the response holds one tool_use block: a create with valid arguments in
\* the scope of Match m
OneValidCreate(content, m) ==
    /\ Len(ToolUsePositions(content)) = 1
    /\ content[ToolUsePositions(content)[1]].name = CreateTool
    /\ content[ToolUsePositions(content)[1]].input = CreateInput(m)

C14_OneCreateOneDecision ==
    \A r \in RunIds :
        ( /\ run[r].entry \in {"analyze", "conduct"}
          /\ AnalyzableFor(run[r].conversation_id, run[r].match_id)
          /\ run[r].engine_calls = 1
          /\ OneValidCreate(run[r].response, run[r].match_id)
          /\ run[r].pc = "done"
          /\ \A k \in 1..Len(run[r].tool_results) :
                Get(run[r].tool_results[k], "error", NULL) # "StoreError" )
        => /\ run[r].conduct_result = "dict"
           /\ run[r].decisions_created = 1
           /\ Cardinality(run[r].created) = 1
           /\ run[r].entry = "analyze" => /\ run[r].result.returned
                                          /\ run[r].result.analysis_completed
                                          /\ run[r].result.decisions_created = 1

(***************************************************************************)
(* C15.  For an existing conversation with a resolvable match and zero     *)
(* messages, context assembly succeeds, and the assembled context reports  *)
(* message_count = 0 with an empty message list.                           *)
(***************************************************************************)
\* the stored conversation refers to a Match that exists
ResolvableMatch(id) ==
    LET row == SelectConversation(id)
    IN /\ row.exists
       /\ row.context.kind = "dict"
       /\ Get(row.context, "match_id", NULL) \in MatchIds

C15_EmptyConversationAssembles ==
    \A r \in RunIds :
        ( /\ run[r].entry = "analyze" /\ run[r].assemblies = 1
          /\ ~run[r].assembly_fault
          /\ ResolvableMatch(run[r].conversation_id)
          /\ MessagesOf(SelectConversation(run[r].conversation_id)) = <<>> )
        => /\ run[r].context.some
           /\ Get(run[r].context, "message_count", NULL) = 0
           /\ Get(run[r].context, "messages", NULL) = <<>>

(***************************************************************************)
(* C16.  The flag update_conversation_status writes is the flag the        *)
(* idempotency check reads: once the tool has been executed with           *)
(* analysis_completed=true for a stored conversation, the store not        *)
(* failing, the invocation has succeeded and the check of a later          *)
(* non-forced run on that conversation reads the flag as set.              *)
(***************************************************************************)
\* what the idempotency check of a run starting now would read
CheckWouldSkip(id) == Truthy(CheckAlreadyAnalyzed(id, FALSE))

PassSucceeded(r) ==
    /\ run[r].entry \in {"analyze", "conduct"}
    /\ run[r].pc = "done"
    /\ run[r].conduct_result = "dict"
    /\ run[r].entry = "analyze" => run[r].result.analysis_completed

C17_SuccessfulRunMarksConversation ==
    \A r \in RunIds :
        (PassSucceeded(r) /\ SelectConversation(run[r].conversation_id).exists)
        => CheckWouldSkip(run[r].conversation_id)

(***************************************************************************)
(* _calculate_title_similarity called on every pair of titles.             *)
(***************************************************************************)
SimilarityTitles == {"", "  ", "abc", "a b c", "b c d", "A B c", "a  b", "a a"}

InitSimilarity ==
    /\ conversations = [id \in ConvIds |-> AbsentRow]
    /\ decisions = <<>>
    /\ run = [r \in RunIds |-> OffRun]
    /\ call \in { [fn |-> "similarity", title1 |-> t1, title2 |-> t2, returned |-> FALSE] :
                    t1 \in SimilarityTitles, t2 \in SimilarityTitles }

CalculateTitleSimilarityCall ==
    /\ call.fn = "similarity"
    /\ ~call.returned
    /\ call' = [fn |-> "similarity", title1 |-> call.title1, title2 |-> call.title2,
                returned |-> TRUE,
                value |-> CalculateTitleSimilarity(call.title1, call.title2)]
    /\ UNCHANGED <<conversations, decisions, run>>

NextSimilarity == CalculateTitleSimilarityCall

SpecSimilarity == InitSimilarity /\ [][NextSimilarity]_vars

(***************************************************************************)
(* C18.  The similarity of two titles is |W1 \cap W2| / |W1 \cup W2| for   *)
(* the sets W1, W2 of their lower-cased whitespace-separated tokens, 1.0   *)
(* when both sets are empty and 0.0 when exactly one is; titles with the   *)
(* same tokens in different case score 1.0, and "a b c" against "b c d"    *)
(* scores 2/4.                                                             *)
(***************************************************************************)
\* the tokens of a title: its maximal runs without a blank, lower-cased
Tokens(title) ==
    LET c == Chars(title)
    IN { LowerChars(SubSeq(c, i, j)) : <<i, j>> \in
           { p \in (1..Len(c)) \X (1..Len(c)) :
               /\ p[1] <= p[2]
               /\ \A k \in p[1]..p[2] : c[k] # " "
               /\ (p[1] = 1 \/ c[p[1] - 1] = " ")
               /\ (p[2] = Len(c) \/ c[p[2] + 1] = " ") } }

\* the fraction v equals n / d
Equals(v, n, d) == v.num * d = n * v.den

C18_JaccardOfTokens ==
    (call.fn = "similarity" /\ call.returned)
    => LET W1 == Tokens(call.title1)
           W2 == Tokens(call.title2)
       IN /\ (W1 = {} /\ W2 = {}) => Equals(call.value, 1, 1)
          /\ ((W1 = {}) # (W2 = {})) => Equals(call.value, 0, 1)
          /\ (W1 # {} /\ W2 # {})
             => Equals(call.value, Cardinality(W1 \cap W2), Cardinality(W1 \cup W2))
          /\ (call.title1 = "a b c" /\ call.title2 = "b c d") => Equals(call.value, 2, 4)
          /\ (call.title1 = "A B c" /\ call.title2 = "a b c") => Equals(call.value, 1, 1)
          /\ (call.title1 = "" /\ call.title2 = "") => Equals(call.value, 1, 1)
          /\ (call.title1 = "abc" /\ call.title2 = "") => Equals(call.value, 0, 1)

C18_Witness ==
    /\ call.fn = "similarity" /\ call.returned
    /\ call.title1 = "a b c" /\ call.title2 = "b c d"
    /\ call.value = [num |-> 1, den |-> 2]

(***************************************************************************)
(* _check_duplicate_decision called over stores of Decisions: Decisions    *)
(* that answer the query, older ones, and ones of another match, another   *)
(* type or another title.  Row i of n was created n + 1 - i hours ago, an  *)
(* old one a day earlier.                                                  *)
(***************************************************************************)
MaxDecisions == 6   \* most Decision rows of a store

DecisionKinds ==
    { [job_posting_match_id |-> "m1", decision_type |-> "clinician_question",
       title |-> "Shift Swap", old |-> o] : o \in BOOLEAN }
    \cup { [job_posting_match_id |-> "m2", decision_type |-> "clinician_question",
            title |-> "Shift Swap", old |-> FALSE],
           [job_posting_match_id |-> "m1", decision_type |-> "scheduling_conflict",
            title |-> "Shift Swap", old |-> FALSE],
           [job_posting_match_id |-> "m1", decision_type |-> "clinician_question",
            title |-> "Leave", old |-> FALSE] }

DecisionStore(kinds) ==
    [i \in 1..Len(kinds) |->
        DecisionRow(i, [title |-> kinds[i].title,
                        decision_type |-> kinds[i].decision_type,
                        job_posting_match_id |-> kinds[i].job_posting_match_id,
                        created_at |-> Now - (IF kinds[i].old THEN 24 ELSE 0)
                                           - (Len(kinds) + 1 - i)])]

\* the stores of at most max rows
DecisionStores(max) ==
    UNION { { DecisionStore(k) : k \in [1..n -> DecisionKinds] } : n \in 0..max }

\* the inputs of a check_duplicate_decision call
DuplicateQueries ==
    { [decision_title |-> t, decision_type |-> "clinician_question",
       job_posting_match_id |-> "m1"] : t \in {"shift", "s_ift"} }
    \cup { [decision_title |-> "shift", decision_type |-> "clinician_question",
            job_posting_match_id |-> "m1", time_window_hours |-> "48"],
           [decision_type |-> "clinician_question", job_posting_match_id |-> "m1"] }

InitDuplicate ==
    /\ conversations = [id \in ConvIds |-> AbsentRow]
    /\ decisions \in DecisionStores(MaxDecisions)
    /\ run = [r \in RunIds |-> OffRun]
    /\ call \in { [fn |-> "check_duplicate", input |-> q, returned |-> FALSE] :
                    q \in DuplicateQueries }

CheckDuplicateDecisionCall ==
    /\ call.fn = "check_duplicate"
    /\ ~call.returned
    /\ \E fault \in BOOLEAN :
         LET args == PrepareToolArguments(CheckTool, call.input,
                                          [conversation_id |-> "c1"])
             out == CallHandler(CheckTool, args, fault, decisions)
         IN /\ call' = [fn |-> "check_duplicate", input |-> call.input,
                        returned |-> TRUE, raised |-> out.raised,
                        payload |-> IF out.raised THEN <<>> ELSE out.payload]
            /\ decisions' = out.decisions
    /\ UNCHANGED <<conversations, run>>

NextDuplicate == CheckDuplicateDecisionCall

SpecDuplicate == InitDuplicate /\ [][NextDuplicate]_vars

(***************************************************************************)
(* C19.  check_duplicate_decision returns only Decisions of the query's    *)
(* match and decision_type, created within the trailing window (24 hours   *)
(* unless the caller gives another) and whose title contains the candidate *)
(* title case-insensitively; it returns the newest of them, at most five,  *)
(* newest first; is_duplicate is true exactly when that list is not empty, *)
(* and duplicate_count is its length.                                      *)
(***************************************************************************)
\* the title contains the candidate, case apart
ContainsIgnoringCase(title, candidate) ==
    LET t == LowerChars(Chars(title))
        c == LowerChars(Chars(candidate))
    IN \E i \in 0..(Len(t) - Len(c)) : SubSeq(t, i + 1, i + Len(c)) = c

\* the Decision answers the query as the claim states it
AnswersQuery(d, query) ==
    /\ d.job_posting_match_id = query.job_posting_match_id
    /\ d.decision_type = query.decision_type
    /\ d.created_at >= Now - HoursOf(Get(query, "time_window_hours", "24"))
    /\ ContainsIgnoringCase(d.title, query.decision_title)

C19_DuplicateQuery ==
    ( /\ call.fn = "check_duplicate" /\ call.returned /\ ~call.raised
      /\ "error" \notin DOMAIN call.payload )
    => LET found == call.payload.duplicate_decisions
           ids == { found[i].id : i \in 1..Len(found) }
       IN /\ \A i \in 1..Len(found) : AnswersQuery(decisions[found[i].id], call.input)
          /\ Len(found) <= 5
          /\ \A i \in 1..Len(found) : \A j \in 1..Len(found) :
                i < j => found[i].created_at >= found[j].created_at
          /\ \A k \in 1..Len(decisions) :
                (AnswersQuery(decisions[k], call.input) /\ k \notin ids)
                => /\ Len(found) = 5
                   /\ \A i \in 1..Len(found) :
                         found[i].created_at >= decisions[k].created_at
          /\ call.payload.is_duplicate = (Len(found) > 0)
          /\ call.payload.duplicate_count = Len(found)

(***************************************************************************)
(* C20.  check_duplicate_decision is advisory and read-only: it changes no *)
(* stored state, and a valid create_intervention_decision invocation       *)
(* persists a Decision whether or not a check was executed before it in    *)
(* the batch, and whatever the check returned.                             *)
(***************************************************************************)
\* the k-th invocation of run r is a create with valid arguments
ValidCreate(r, k) ==
    /\ Invocation(r, k).name = CreateTool
    /\ Invocation(r, k).input \in { CreateInput(m) : m \in MatchIds }

C20_CheckIsAdvisory ==
    \A r \in RunIds :
        /\ ( /\ run[r].entry = "conduct"
             /\ \A k \in 1..Len(run[r].started) : Invocation(r, k).name = CheckTool )
           => decisions = <<>>
        /\ \A k \in 1..Len(run[r].tool_results) :
             ( /\ ValidCreate(r, k)
               /\ Get(run[r].tool_results[k], "error", NULL) # "StoreError" )
             => /\ run[r].tool_results[k].success
                /\ Cardinality(run[r].created)
                     >= Cardinality({ j \in 1..k : ValidCreate(r, j) /\
                                        run[r].tool_results[j].success })
                /\ run[r].created # {}


(***************************************************************************)
(* update_conversation_status executed on its own, once and then again     *)
(* with the same arguments, on a store of one conversation.                *)
(***************************************************************************)
\* the inputs the engine gives the tool
UpdateInputs ==
    { [status |-> s, analysis_completed |-> a, decisions_created |-> n] :
        s \in {"analyzed", "needs_review"}, a \in {"true", "false"}, n \in {"0", "1"} }
    \cup { Without(UpdateInput, "status"),
           [status |-> "analyzed"] }

\* lines 308-319 of _update_conversation_status: the row after the
\* assignments, the attribute read at line 308 being the dict bag
WithStatus(conversation, bag, args, now) ==
    [metadata |-> [post_analysis_completed |-> args.analysis_completed,
                   decisions_created |-> args.decisions_created,
                   analysis_status |-> args.status,
                   analyzed_at |-> now] @@ bag,
     updated_at |-> now] @@ conversation

UpdateConversationStatusRows_Accumulates(args, now, fault, rows) ==
    IF fault \/ ~SelectConversation(args.conversation_id).exists
    THEN rows
    ELSE [rows EXCEPT ![args.conversation_id] =
            WithStatus(@, <<>>,
                       [args EXCEPT !.status =
                           IF "metadata" \in DOMAIN rows[args.conversation_id]
                           THEN "repeated" ELSE args.status],
                       now)]

\* _update_conversation_status: the Conversation rows after the call; a
\* call that raises has assigned nothing
UpdateConversationStatusRows(args, now, fault, rows) ==
    IF UpdateConversationStatus(args, fault, <<>>).raised
    THEN rows
    ELSE [rows EXCEPT ![args.conversation_id] =
            WithStatus(@, Get(@, "metadata", <<>>), args, now)]

InitUpdate ==
    /\ conversations \in [ConvIds -> ConversationRows]
    /\ conversations["c2"] = AbsentRow
    /\ decisions = <<>>
    /\ run = [r \in RunIds |-> OffRun]
    /\ call = NoCall

\* execute_tool for an update_conversation_status block, at hour now
ExecuteUpdate(tool_block, input_data, now) ==
    \E fault \in BOOLEAN :
        LET out == ExecuteTool(tool_block, input_data, fault, decisions)
            args == PrepareToolArguments(UpdateTool, tool_block.input, input_data)
        IN /\ conversations' = UpdateConversationStatusRows(args, now, fault, conversations)
           /\ decisions' = out.decisions
           /\ call' = [fn |-> UpdateTool, tool_block |-> tool_block,
                       input_data |-> input_data,
                       before |-> IF call = NoCall THEN conversations ELSE call.before,
                       once |-> IF call = NoCall THEN conversations' ELSE call.once,
                       results |-> IF call = NoCall THEN <<out.result>>
                                   ELSE Append(call.results, out.result)]

UpdateConversationStatusCall ==
    /\ call = NoCall
    /\ \E conversation_id \in ConvIds, tool_input \in UpdateInputs :
         ExecuteUpdate([type |-> "tool_use", name |-> UpdateTool,
                        input |-> tool_input, id |-> ToolUseId(1)],
                       [conversation_id |-> conversation_id, match_id |-> "m1",
                        force_reanalysis |-> FALSE],
                       Now)
    /\ UNCHANGED run

\* the same block executed again, an hour later
UpdateConversationStatusAgain ==
    /\ call # NoCall
    /\ Len(call.results) = 1
    /\ ExecuteUpdate(call.tool_block, call.input_data, Now + 1)
    /\ UNCHANGED run

NextUpdate == UpdateConversationStatusCall \/ UpdateConversationStatusAgain

SpecUpdate == InitUpdate /\ [][NextUpdate]_vars

(***************************************************************************)
(* C21.  update_conversation_status is idempotent: after the tool has been *)
(* executed twice in a row with the same arguments, the conversation's     *)
(* completion flag, decisions-created count and status label are what they *)
(* were after the first execution, and every key of the conversation's     *)
(* bags that the tool does not write has the value it had before.          *)
(***************************************************************************)
\* the keys of the bag the tool writes, the timestamp apart
StatusKeys == {"post_analysis_completed", "decisions_created", "analysis_status"}

\* the keys the tool writes
WrittenKeys == StatusKeys \cup {"analyzed_at"}

\* the value of a key of the row's metadata bag and of its context bag
BagValue(row, bag, key) == Get(Get(row, bag, <<>>), key, "absent")

BagKeys(row, bag) == DOMAIN Get(row, bag, <<>>)

C21_UpdateIdempotent ==
    (call # NoCall /\ Len(call.results) = 2)
    => \A id \in ConvIds :
         /\ conversations[id].exists = call.once[id].exists
         /\ \A key \in StatusKeys :
              BagValue(conversations[id], "metadata", key)
                 = BagValue(call.once[id], "metadata", key)
         /\ StoredFlag(id) = BagValue(call.once[id], "context", "post_analysis_completed")
         /\ \A key \in BagKeys(call.before[id], "metadata") \ WrittenKeys :
              BagValue(conversations[id], "metadata", key)
                 = BagValue(call.before[id], "metadata", key)
         /\ Get(conversations[id], "context", NULL) = Get(call.before[id], "context", NULL)

C21_Witness ==
    /\ call # NoCall
    /\ Len(call.results) = 2
    /\ conversations[call.input_data.conversation_id].exists
    /\ call.results[1] = call.results[2]
    /\ call.results[2].error = "AttributeError"


(***************************************************************************)
(* C22.  update_conversation_status executed for a conversation that is    *)
(* not in the store yields a result with success=false and the not-found   *)
(* error (the select not failing), changes no stored state, and the        *)
(* invocations after it in the response are still executed.                *)
(***************************************************************************)
\* the conversation of run r is not in the store
ConversationGone(r) == ~SelectConversation(run[r].conversation_id).exists

\* the k-th invocation of run r is an update_conversation_status
UpdatesStatus(r, k) == Invocation(r, k).name = UpdateTool

C22_MissingState ==
    \A r \in RunIds :
        ConversationGone(r)
        => /\ \A k \in 1..Len(run[r].tool_results) :
                UpdatesStatus(r, k)
                => /\ ~run[r].tool_results[k].success
                   /\ Get(run[r].tool_results[k], "error", NULL)
                         \in {"ValueError: Conversation not found", "StoreError"}
           /\ ( /\ ToolStageOver(r)
                /\ \E k \in 1..Len(run[r].started) : UpdatesStatus(r, k) )
              => /\ run[r].conduct_result = "dict"
                 /\ run[r].started = ToolUsePositions(run[r].response)
                 /\ Len(run[r].tool_results) = Len(run[r].started)

C22_MissingFrame ==
    \A r \in RunIds :
        ( /\ ConversationGone(r)
          /\ run[r].pc = "tools"
          /\ run[r].inflight # 0
          /\ run[r].response[run[r].inflight].name = UpdateTool
          /\ run'[r] # run[r] )
        => /\ decisions' = decisions
           /\ conversations' = conversations

C22_MissingConversationIsolated == []C22_MissingState /\ [][C22_MissingFrame]_vars

C22_Witness ==
    \E r \in RunIds :
        /\ ConversationGone(r)
        /\ ToolStageOver(r)
        /\ Len(run[r].tool_results) = 3
        /\ UpdatesStatus(r, 2)
        /\ run[r].tool_results[2].error = "ValueError: Conversation not found"
        /\ Invocation(r, 3).name = NotifyTool
        /\ run[r].tool_results[3].success


(***************************************************************************)
(* The operations of the subsystem on a store that holds Decisions:        *)
(* the run of analyze_conversation up to assembly, the create handler, and *)
(* execute_tool called for single tool_use blocks.                         *)
(***************************************************************************)
MaxStored == 1      \* most Decision rows of the store at the start
MaxCalls == 2       \* most execute_tool calls

\* the Conversation rows of this store: none, one never analyzed, one flagged
FrameRows ==
    { AbsentRow,
      [exists |-> TRUE, context |-> [kind |-> "dict", match_id |-> "m1"]],
      [exists |-> TRUE, context |-> [kind |-> "dict", match_id |-> "m1",
                                     post_analysis_completed |-> "true"]] }

InitFrame ==
    /\ conversations \in [ConvIds -> FrameRows]
    /\ conversations["c2"] = AbsentRow
    /\ decisions \in DecisionStores(MaxStored)
    /\ run = [r \in RunIds |-> IF r = "r1" THEN IdleRun ELSE OffRun]
    /\ call = [fn |-> "execute_tool", n |-> 0]

\* await self.tool_orchestrator.execute_tool(tool_block, db_session, input_data)
ExecuteToolCall ==
    /\ call.fn = "execute_tool"
    /\ call.n < MaxCalls
    /\ \E shape \in ToolUses, fault \in BOOLEAN :
         LET tool_block == shape @@ [id |-> ToolUseId(call.n + 1)]
             input_data == [conversation_id |-> "c1", match_id |-> "m1",
                            force_reanalysis |-> FALSE]
             out == ExecuteTool(tool_block, input_data, fault, decisions)
         IN /\ decisions' = out.decisions
            /\ call' = [fn |-> "execute_tool", n |-> call.n + 1,
                        tool_block |-> tool_block, result |-> out.result]
    /\ UNCHANGED <<conversations, run>>

NextFrame ==
    \/ \E r \in RunIds :
         \/ AnalyzeConversation(r)
         \/ IdempotencyCheck(r)
         \/ ContextAssembly(r)
         \/ CreateHandlerCall(r)
    \/ ExecuteToolCall

SpecFrame == InitFrame /\ [][NextFrame]_vars

(***************************************************************************)
(* C23.  A Decision comes into existence only through a                    *)
(* create_intervention_decision that succeeds, and has status "pending"    *)
(* when it does; no other step of the subsystem (the other three tools, an *)
(* unknown tool, context assembly, the idempotency check) adds, changes or *)
(* removes a Decision.                                                     *)
(***************************************************************************)
\* the step is a create_intervention_decision that succeeds
SuccessfulCreateStep ==
    \/ \E r \in RunIds :
         /\ run[r].pc = "idle"
         /\ run'[r].entry = "handler"
         /\ run'[r].conduct_result = "returned"
    \/ /\ call' # call
       /\ call'.tool_block.name = CreateTool
       /\ call'.result.success

C23_DecisionFrame ==
    (decisions' # decisions)
    => /\ SuccessfulCreateStep
       /\ Len(decisions') = Len(decisions) + 1
       /\ SubSeq(decisions', 1, Len(decisions)) = decisions
       /\ decisions'[Len(decisions')].status = "pending"

C23_DecisionsOnlyByCreate == [][C23_DecisionFrame]_vars

C23_Witness ==
    /\ Len(decisions) = 2
    /\ "status" \notin DOMAIN decisions[1]
    /\ decisions[2].status = "pending"
    /\ run["r1"].entry = "handler"
    /\ call.n = 2
    /\ call.tool_block.name = NotifyTool
    /\ call.result.success


(***************************************************************************)
(* Two runs of analyze_conversation at once, on one store: the steps of    *)
(* the two coroutines interleave at every await.                           *)
(***************************************************************************)
InitRace ==
    /\ conversations \in [ConvIds -> AssemblyRows]
    /\ conversations["c2"] = AbsentRow
    /\ decisions = <<>>
    /\ run = [r \in RunIds |-> IdleRun]
    /\ call = NoCall

NextRace ==
    \E r \in RunIds :
        \/ AnalyzeConversation(r)
        \/ IdempotencyCheck(r)
        \/ ContextAssembly(r)

SpecRace == InitRace /\ [][NextRace]_vars

(***************************************************************************)
(* C24.  Two concurrent non-forced runs for the same conversation whose    *)
(* completion flag is unset are not serialized: both pass the idempotency  *)
(* check before either has written the flag, and from there each goes on   *)
(* to invoke the engine (and may create decisions), its own reads of the   *)
(* store not failing.                                                      *)
(***************************************************************************)
\* run r has passed the idempotency check of a conversation it can analyze
PassedCheck(r) ==
    /\ run[r].entry = "analyze"
    /\ ~run[r].force
    /\ run[r].checked
    /\ ~run[r].check_fault
    /\ run[r].flag_at_check # "true"
    /\ AnalyzableFor(run[r].conversation_id, run[r].match_id)

\* r and s are both between the check and the assembly of one conversation
Racing(r, s) ==
    /\ r # s
    /\ run[r].conversation_id = run[s].conversation_id
    /\ PassedCheck(r) /\ PassedCheck(s)
    /\ run[r].pc = "assemble" /\ run[s].pc = "assemble"

C24_RaceStep ==
    \A r, s \in RunIds :
        (Racing(r, s) /\ run'[r] # run[r] /\ ~run'[r].assembly_fault)
        => run'[r].pc = "conduct"

C24_RaceReachesEngine == [][C24_RaceStep]_vars

\* both runs have passed the check of the same unflagged conversation
C24_BothPassTheCheck == \E r, s \in RunIds : Racing(r, s)


(***************************************************************************)
(* Two runs at once on a store of two conversations, c1 of Match m1 and    *)
(* c2 of Match m2: each run is an analyze_conversation or the create       *)
(* handler called for one tool_use block of the engine.                    *)
(***************************************************************************)
\* the stored row of a conversation of Match m, flagged or not
RowOfMatch(m) ==
    { [exists |-> TRUE, context |-> [kind |-> "dict", match_id |-> m]],
      [exists |-> TRUE, context |-> [kind |-> "dict", match_id |-> m,
                                     post_analysis_completed |-> "true"]] }

InitIsolation ==
    /\ conversations \in [ConvIds -> RowOfMatch("m1") \cup RowOfMatch("m2")]
    /\ conversations["c1"] \in RowOfMatch("m1")
    /\ conversations["c2"] \in RowOfMatch("m2")
    /\ decisions = <<>>
    /\ run = [r \in RunIds |-> IdleRun]
    /\ call = NoCall

NextIsolation ==
    \E r \in RunIds :
        \/ AnalyzeConversation(r)
        \/ IdempotencyCheck(r)
        \/ ContextAssembly(r)
        \/ CreateHandlerCall(r)

SpecIsolation == InitIsolation /\ [][NextIsolation]_vars

(***************************************************************************)
(* C25.  A run for conversation A changes nothing that belongs to another  *)
(* conversation B, whatever the other run does and whatever arguments the  *)
(* engine supplies: no step of the run changes B's Conversation row or its *)
(* completion flag, and no Decision the run creates carries B's match.     *)
(***************************************************************************)
\* the match a stored conversation refers to
StoredMatch(id) ==
    LET row == SelectConversation(id)
    IN IF row.exists /\ row.context.kind = "dict"
       THEN Get(row.context, "match_id", NULL)
       ELSE NULL

\* the matches a Decision row carries, in either column
MatchesOf(decision) ==
    {decision.job_posting_id, decision.job_posting_match_id} \ {NULL}

C25_NoForeignDecision ==
    \A r \in RunIds : \A i \in 1..Len(decisions) :
        decisions[i].id \in run[r].created
        => \A other \in ConvIds \ {run[r].conversation_id} :
              StoredMatch(other) \notin MatchesOf(decisions[i])

C25_NoForeignWrite ==
    \A r \in RunIds :
        (run'[r] # run[r])
        => \A other \in ConvIds \ {run'[r].conversation_id} :
              conversations'[other] = conversations[other]

MaxAnswer == 2      \* most content blocks of an answer

\* a tool_use block without its input attribute
MalformedToolUse == [type |-> "tool_use", name |-> NotifyTool]

\* the blocks of an answer, ids apart
AnswerBlocks ==
    { TextBlock, MalformedToolUse,
      [type |-> "tool_use", name |-> NotifyTool, input |-> NotifyInput],
      [type |-> "tool_use", name |-> UpdateTool, input |-> UpdateInput] }

WithIdsWhereFormed(shapes) ==
    [i \in 1..Len(shapes) |->
        IF shapes[i].type = "tool_use" /\ "input" \in DOMAIN shapes[i]
        THEN shapes[i] @@ [id |-> ToolUseId(i)]
        ELSE shapes[i]]

\* response.content of one messages.create call
Answers(max) ==
    UNION { { WithIdsWhereFormed(s) : s \in [1..n -> AnswerBlocks] } : n \in 0..max }

\* the prompt and the messages.create call
EngineAnswer(r) ==
    /\ run[r].pc = "conduct"
    /\ IF PromptRaises(run[r].context)
       THEN Set(r, ConductReturns(run[r], [some |-> FALSE]))
       ELSE \/ Set(r, ConductReturns([run[r] EXCEPT !.engine_calls = @ + 1],
                                     [some |-> FALSE]))
            \/ \E content \in Answers(MaxAnswer) :
                 Set(r, [run[r] EXCEPT !.engine_calls = @ + 1,
                                       !.response = content,
                                       !.idx = 1,
                                       !.pc = "tools"])
    /\ UNCHANGED <<conversations, decisions, call>>

\* the read of an attribute the block lacks raises inside the loop: the
\* except clause of _conduct_analysis returns None
BlockRaises(r) ==
    /\ run[r].pc = "tools"
    /\ AwaitsEach(run[r].inflight)
    /\ run[r].idx <= Len(run[r].response)
    /\ run[r].response[run[r].idx].type = "tool_use"
    /\ ~HasToolUseAttributes(run[r].response[run[r].idx])
    /\ Set(r, ConductReturns(run[r], [some |-> FALSE]))
    /\ UNCHANGED <<conversations, decisions, call>>

NextEngine ==
    \E r \in RunIds :
        \/ ConductAnalysisCall(r)
        \/ EngineAnswer(r)
        \/ PassBlock(r)
        \/ ToolStart(r)
        \/ ToolReturn(r)
        \/ BlockRaises(r)
        \/ ConductFinish(r)

SpecEngine == Init /\ [][NextEngine]_vars

(***************************************************************************)
(* C26.  When the engine call fails or the response is malformed, the pass *)
(* fails (_conduct_analysis returns None, which analyze_conversation       *)
(* answers with analysis_completed=false, decisions_created=0 and an error *)
(* message) and no tool invocation of that response has been executed.     *)
(***************************************************************************)
\* the messages.create call of run r raised
EngineFailed(r) == run[r].engine_calls = 1 /\ run[r].idx = 0

\* the response holds a block without the attributes of its type
Malformed(content) ==
    \E i \in 1..Len(content) :
        content[i].type = "tool_use" /\ ~HasToolUseAttributes(content[i])

C26_EngineErrorFailsRun ==
    \A r \in RunIds :
        ( /\ run[r].pc = "done"
          /\ run[r].entry \in {"analyze", "conduct"}
          /\ EngineFailed(r) \/ Malformed(run[r].response) )
        => /\ run[r].conduct_result = "None"
           /\ run[r].entry = "analyze"
                => /\ ~run[r].result.analysis_completed
                   /\ run[r].result.decisions_created = 0
                   /\ run[r].result.error_message # NULL
           /\ run[r].started = <<>>
           /\ run[r].tool_results = <<>>


(***************************************************************************)
(* _get_conversation_data and _format_messages_for_analysis on a store of  *)
(* two conversations whose Message rows were inserted in any order of      *)
(* their created_at, equal values included.                                *)
(***************************************************************************)
MaxRows == 3        \* most Message rows of the store

\* the created_at values of Message rows, in hours
Stamps == {1, 2}

MessageId(i) == CASE i = 1 -> "g1" [] i = 2 -> "g2" [] i = 3 -> "g3" [] OTHER -> "g4"

\* the messages table in the order of insertion: row i belongs to the
\* conversation and has the created_at that of[i] gives
MessageTable(of) ==
    [i \in 1..Len(of) |->
        [id |-> MessageId(i), conversation_id |-> of[i][1], created_at |-> of[i][2],
         role |-> IF i % 2 = 1 THEN "user" ELSE "assistant", content |-> "text"]]

MessageTables(max) ==
    UNION { { MessageTable(of) : of \in [1..n -> ConvIds \X Stamps] } : n \in 0..max }

\* the Message rows of the store
StoredMessages ==
    UNION { { conversations[c].message_rows[i] :
                i \in 1..Len(conversations[c].message_rows) } : c \in ConvIds }

\* the sequences that list every row of a set once
Listings(rows) ==
    { s \in [1..Cardinality(rows) -> rows] :
        \A i, j \in 1..Cardinality(rows) : i # j => s[i] # s[j] }

SelectMessages_Unordered(id) ==
    Listings({ m \in StoredMessages : m.conversation_id = id })

\* select(Message).where(Message.conversation_id == id)
\*                .order_by(Message.created_at): the results the store may
\* give, rows of equal created_at in either order
SelectMessages(id) ==
    { s \in Listings({ m \in StoredMessages : m.conversation_id = id }) :
        \A i, j \in 1..Len(s) : i < j => s[i].created_at <= s[j].created_at }

\* datetime.isoformat()
IsoFormat(t) ==
    CASE t = 1 -> "2024-05-01T01:00:00"
      [] t = 2 -> "2024-05-01T02:00:00"
      [] OTHER -> "2024-05-01T03:00:00"

\* _format_messages_for_analysis
FormatMessagesForAnalysis(messages) ==
    [i \in 1..Len(messages) |->
        [id |-> messages[i].id,
         content |-> messages[i].content,
         role |-> messages[i].role,
         timestamp |-> IsoFormat(messages[i].created_at),
         metadata |-> "MetaData"]]

InitMessages ==
    /\ \E table \in MessageTables(MaxRows) :
         conversations =
            [c \in ConvIds |->
                [exists |-> TRUE, context |-> JsonNull,
                 message_rows |-> SelectSeq(table, LAMBDA m : m.conversation_id = c)]]
    /\ decisions = <<>>
    /\ run = [r \in RunIds |-> OffRun]
    /\ call \in { [fn |-> "get_conversation_data", conversation_id |-> id,
                   returned |-> FALSE] : id \in ConvIds \cup {"c0"} }

\* conversation_data = await self._get_conversation_data(db_session), and
\* the messages of the context made from it
GetConversationDataCall ==
    /\ call.fn = "get_conversation_data"
    /\ ~call.returned
    /\ \E fault \in BOOLEAN :
         IF ~GetConversationData(call.conversation_id, fault).exists
         THEN call' = [call EXCEPT !.returned = TRUE] @@ [some |-> FALSE]
         ELSE \E messages \in SelectMessages(call.conversation_id) :
                call' = [call EXCEPT !.returned = TRUE]
                           @@ [some |-> TRUE,
                               messages |-> FormatMessagesForAnalysis(messages)]
    /\ UNCHANGED <<conversations, decisions, run>>

NextMessages == GetConversationDataCall

SpecMessages == InitMessages /\ [][NextMessages]_vars

(***************************************************************************)
(* C27.  The message list made for a context is in non-decreasing order of *)
(* the messages' creation timestamps and holds exactly the Message rows of *)
(* the analyzed conversation, each once, under its own timestamp.          *)
(***************************************************************************)
\* the stored row of a listed message
StoredMessage(id) == CHOOSE m \in StoredMessages : m.id = id

\* the ids of the stored messages of a conversation
MessageIdsOf(id) == { m.id : m \in { n \in StoredMessages : n.conversation_id = id } }

C27_TranscriptOrdered ==
    (call.fn = "get_conversation_data" /\ call.returned /\ call.some)
    => LET listed == call.messages
       IN /\ { listed[i].id : i \in 1..Len(listed) } = MessageIdsOf(call.conversation_id)
          /\ Len(listed) = Cardinality(MessageIdsOf(call.conversation_id))
          /\ \A i, j \in 1..Len(listed) :
                i < j => StoredMessage(listed[i].id).created_at
                            <= StoredMessage(listed[j].id).created_at
          /\ \A i \in 1..Len(listed) :
                listed[i].timestamp = IsoFormat(StoredMessage(listed[i].id).created_at)

\* two messages stored newest first, and a message of the other conversation
C27_Witness ==
    /\ call.fn = "get_conversation_data" /\ call.returned /\ call.some
    /\ Len(call.messages) = 2
    /\ LET rows == conversations[call.conversation_id].message_rows
       IN rows[1].created_at > rows[2].created_at
    /\ \E m \in StoredMessages : m.conversation_id # call.conversation_id


(***************************************************************************)
(* C28.  For an existing conversation with a resolvable match and zero     *)
(* notes, context assembly succeeds, and the assembled context reports     *)
(* note_count = 0 with the first-note and last-note timestamps null.       *)
(***************************************************************************)
C28_NoNotesAssembles ==
    \A r \in RunIds :
        ( /\ run[r].entry = "analyze" /\ run[r].assemblies = 1
          /\ ~run[r].assembly_fault
          /\ ResolvableMatch(run[r].conversation_id)
          /\ NotesOf(SelectConversation(run[r].conversation_id)) = <<>> )
        => /\ run[r].context.some
           /\ run[r].context.note_count = 0
           /\ run[r].context.notes_start_timestamp = NULL
           /\ run[r].context.notes_end_timestamp = NULL


(***************************************************************************)
(* C29.  When the job posting of the conversation's Match names a team     *)
(* that has no Team record, assembly still succeeds, under the placeholder *)
(* team name; when the job posting has no team_id at all, assembly fails   *)
(* and the run returns a failed result without invoking the engine.        *)
(***************************************************************************)
\* the team_id of the job posting of the Match the conversation refers to
StoredTeam(id) ==
    IF StoredMatch(id) \in JobPostingMatches
    THEN Match(StoredMatch(id)).team_id
    ELSE "no match"

C29_TeamResolution ==
    \A r \in RunIds :
        ( /\ run[r].entry = "analyze" /\ run[r].assemblies = 1
          /\ ~run[r].assembly_fault )
        => /\ ( /\ StoredTeam(run[r].conversation_id) \notin {NULL, "no match"}
                /\ StoredTeam(run[r].conversation_id) \notin Teams )
              => /\ run[r].context.some
                 /\ TeamName(run[r].context.job_posting_match_id) = "Unknown Team"
           /\ StoredTeam(run[r].conversation_id) = NULL
              => /\ ~run[r].context.some
                 /\ run[r].pc = "done"
                 /\ ~run[r].result.analysis_completed
                 /\ run[r].engine_calls = 0


(***************************************************************************)
(* C30.  A failure while the existing decisions are loaded or while the    *)
(* conversation metadata is computed does not abort assembly: whenever the *)
(* conversation, its messages and notes, the match and the team scope have *)
(* been loaded, a context is produced, with an empty decision list or      *)
(* default metadata where those steps failed, and the run goes on to the   *)
(* engine.                                                                 *)
(***************************************************************************)
\* the loads that may abort assembly have succeeded for run r
ScopeLoaded(r) ==
    /\ ~run[r].assembly_fault
    /\ ResolvableMatch(run[r].conversation_id)
    /\ StoredTeam(run[r].conversation_id) \in Teams

C30_EnrichmentsDegrade ==
    \A r \in RunIds :
        (run[r].entry = "analyze" /\ run[r].assemblies = 1 /\ ScopeLoaded(r))
        => /\ run[r].context.some
           /\ "existing_decisions" \in DOMAIN run[r].context
           /\ "conversation_metadata" \in DOMAIN run[r].context
           /\ run[r].pc = "conduct"


(***************************************************************************)
(* _get_existing_decisions on a store of Decisions of two matches, with    *)
(* bodies shorter and longer than the preview cap and one without a body.  *)
(***************************************************************************)
MaxExisting == 2    \* most Decision rows of the store

\* the rows of the store: match, body and age in hours
ExistingKinds ==
    { [job_posting_match_id |-> m, body |-> b, age |-> a] :
        m \in MatchIds, b \in {"body", "text of 200", "text of 201", "text of 250"},
        a \in {1, 2} }
    \cup { [job_posting_match_id |-> "m1", body |-> NULL, age |-> 1] }

ExistingStore(kinds) ==
    [i \in 1..Len(kinds) |->
        DecisionRow(i, [title |-> "Shift Swap",
                        decision_type |-> "clinician_question",
                        job_posting_match_id |-> kinds[i].job_posting_match_id,
                        body |-> kinds[i].body,
                        created_at |-> Now - kinds[i].age])]

ExistingStores(max) ==
    UNION { { ExistingStore(k) : k \in [1..n -> ExistingKinds] } : n \in 0..max }

InitExisting ==
    /\ conversations = [id \in ConvIds |-> AbsentRow]
    /\ decisions \in ExistingStores(MaxExisting)
    /\ run = [r \in RunIds |-> OffRun]
    /\ call \in { [fn |-> "get_existing_decisions", match_id |-> m, returned |-> FALSE] :
                    m \in MatchIds }

\* existing_decisions = await self._get_existing_decisions(db_session, match.id)
GetExistingDecisionsCall ==
    /\ call.fn = "get_existing_decisions"
    /\ ~call.returned
    /\ \E fault \in BOOLEAN :
         call' = [fn |-> "get_existing_decisions", match_id |-> call.match_id,
                  returned |-> TRUE, fault |-> fault,
                  existing_decisions |-> GetExistingDecisions(call.match_id, fault)]
    /\ UNCHANGED <<conversations, decisions, run>>

NextExisting == GetExistingDecisionsCall

SpecExisting == InitExisting /\ [][NextExisting]_vars

(***************************************************************************)
(* C31.  The existing-decisions list holds only Decisions of the match it  *)
(* was loaded for, in non-increasing order of creation time, and every     *)
(* entry's body preview is bounded, for stored bodies of any length.       *)
(*                                                                         *)
(* C31_Original bounds the preview by 200 characters; C31_PreviewBounded   *)
(* by 203: the whole body when it has at most 200 characters, else its     *)
(* first 200 characters followed by "...".                                 *)
(***************************************************************************)
\* the stored Decision of a listed entry
StoredDecision(id) == decisions[CHOOSE i \in 1..Len(decisions) : decisions[i].id = id]

\* the list holds Decisions of the match only, newest first
OfMatchNewestFirst(listed, match_id) ==
    /\ \A i \in 1..Len(listed) :
          StoredDecision(listed[i].id).job_posting_match_id = match_id
    /\ \A i, j \in 1..Len(listed) :
          i < j => listed[i].created_at >= listed[j].created_at
    /\ \A i \in 1..Len(listed) :
          listed[i].created_at = StoredDecision(listed[i].id).created_at

C31_Original ==
    (call.fn = "get_existing_decisions" /\ call.returned)
    => /\ OfMatchNewestFirst(call.existing_decisions, call.match_id)
       /\ \A i \in 1..Len(call.existing_decisions) :
             Len(call.existing_decisions[i].body) <= 200

C31_PreviewBounded ==
    (call.fn = "get_existing_decisions" /\ call.returned)
    => /\ OfMatchNewestFirst(call.existing_decisions, call.match_id)
       /\ \A i \in 1..Len(call.existing_decisions) :
             LET preview == call.existing_decisions[i].body
                 stored == Chars(StoredDecision(call.existing_decisions[i].id).body)
             IN /\ Len(preview) <= 203
                /\ IF Len(stored) <= 200
                   THEN preview = stored
                   ELSE /\ Len(preview) = 203
                        /\ SubSeq(preview, 1, 200) = SubSeq(stored, 1, 200)
                        /\ SubSeq(preview, 201, 203) = <<".", ".", ".">>

C31_Witness ==
    /\ call.fn = "get_existing_decisions" /\ call.returned
    /\ Len(call.existing_decisions) = 2
    /\ Len(call.existing_decisions[1].body) = 203
    /\ Len(call.existing_decisions[2].body) = 200
    /\ call.existing_decisions[1].created_at > call.existing_decisions[2].created_at
    /\ decisions[1].created_at < decisions[2].created_at


(***************************************************************************)
(* The tool catalog sent to the engine.                                    *)
(***************************************************************************)
\* POST_CONVERSATION_ANALYSIS_TOOLS: the "name" of each entry of the list
PostConversationAnalysisTools == {CreateTool, CheckTool, UpdateTool}

\* load_post_conversation_assets: there is no prompt_assets/tools.json next
\* to the module, so the built-in list is the one loaded
LoadPostConversationAssets == PostConversationAnalysisTools

\* self.system_prompt, self.tool_definitions = load_post_conversation_assets();
\* tools=self.tool_definitions in messages.create
ToolDefinitions == LoadPostConversationAssets

(***************************************************************************)
(* C32.  The tool names of the catalog sent to the engine are the tool     *)
(* names of the orchestrator's handler table: exactly the four tools       *)
(* create_intervention_decision, check_duplicate_decision,                 *)
(* update_conversation_status and notify_recruiters, so that every         *)
(* cataloged tool has a handler and every handler is offered to the        *)
(* engine, whenever a run has invoked the engine.                          *)
(***************************************************************************)
C32_CatalogIsHandlerTable ==
    \A r \in RunIds :
        run[r].engine_calls > 0 =>
            /\ ToolDefinitions = ToolFunctions
            /\ ToolDefinitions = {"create_intervention_decision",
                                  "check_duplicate_decision",
                                  "update_conversation_status",
                                  "notify_recruiters"}


(***************************************************************************)
(* A Decision created by its handler, then looked up: the duplicate check  *)
(* and the existing-decisions list of the same match, one after the other. *)
(***************************************************************************)
\* the titles of the created Decision and the candidate titles of the check
CreatedTitles == {"Shift Swap", "SHIFT"}
CandidateTitles == {"shift", "Shift Swap", "Leave"}

\* the keywords of a create_intervention_decision call
CreatedInputs ==
    { [CreateInput(m) EXCEPT !.title = t, !.decision_type = d] :
        m \in MatchIds, t \in CreatedTitles,
        d \in {"clinician_question", "urgent_escalation"} }

InitLookup ==
    /\ conversations = [id \in ConvIds |-> AbsentRow]
    /\ decisions = <<>>
    /\ run = [r \in RunIds |-> OffRun]
    /\ call \in { [fn |-> "create_then_lookup", pc |-> "create", input |-> i] :
                    i \in CreatedInputs }

\* db_session.add(decision); await db_session.flush()
CreateThenLookup ==
    /\ call.fn = "create_then_lookup"
    /\ call.pc = "create"
    /\ \E fault \in BOOLEAN :
         LET args == ToolSpecificArguments(CreateTool, call.input)
                        @@ [db_session |-> "db_session"]
             out == CallHandler(CreateTool, args, fault, decisions)
         IN /\ decisions' = out.decisions
            /\ call' = [fn |-> "create_then_lookup", pc |-> "check",
                        input |-> call.input,
                        created |-> { out.decisions[i].id :
                                        i \in (Len(decisions) + 1)..Len(out.decisions) }]
    /\ UNCHANGED <<conversations, run>>

\* check_duplicate_decision for the match and type of the created Decision
LookupDuplicate ==
    /\ call.fn = "create_then_lookup"
    /\ call.pc = "check"
    /\ \E candidate \in CandidateTitles, fault \in BOOLEAN :
         LET query == [decision_title |-> candidate,
                       decision_type |-> call.input.decision_type,
                       job_posting_match_id |-> call.input.job_posting_match_id]
             args == PrepareToolArguments(CheckTool, query, [conversation_id |-> "c1"])
             out == CallHandler(CheckTool, args, fault, decisions)
         IN /\ decisions' = out.decisions
            /\ call' = [fn |-> "create_then_lookup", pc |-> "list",
                        input |-> call.input, created |-> call.created,
                        candidate |-> candidate, check_fault |-> fault,
                        payload |-> IF out.raised THEN <<>> ELSE out.payload]
    /\ UNCHANGED <<conversations, run>>

\* _get_existing_decisions for the match of the created Decision
LookupExisting ==
    /\ call.fn = "create_then_lookup"
    /\ call.pc = "list"
    /\ \E fault \in BOOLEAN :
         call' = [fn |-> "create_then_lookup", pc |-> "done",
                  input |-> call.input, created |-> call.created,
                  candidate |-> call.candidate, check_fault |-> call.check_fault,
                  payload |-> call.payload, list_fault |-> fault,
                  existing_decisions |->
                      GetExistingDecisions(call.input.job_posting_match_id, fault)]
    /\ UNCHANGED <<conversations, decisions, run>>

NextLookup == CreateThenLookup \/ LookupDuplicate \/ LookupExisting

SpecLookup == InitLookup /\ [][NextLookup]_vars

(***************************************************************************)
(* C33.  A Decision persisted by create_intervention_decision with match   *)
(* M, decision_type T and title S is among the duplicates that a           *)
(* check_duplicate_decision executed afterwards within the time window     *)
(* returns for match M, type T and a candidate title contained in S, and   *)
(* it is in the existing-decisions list loaded next for match M, when      *)
(* neither query fails.                                                    *)
(***************************************************************************)
\* the ids of the entries of a list
IdsOf(entries) == { entries[i].id : i \in 1..Len(entries) }

C33_CreatedIsFound ==
    ( /\ call.fn = "create_then_lookup" /\ call.pc = "done"
      /\ call.created # {}
      /\ ~call.check_fault /\ ~call.list_fault
      /\ ContainsIgnoringCase(call.input.title, call.candidate) )
    => /\ "duplicate_decisions" \in DOMAIN call.payload
       /\ call.created \subseteq IdsOf(call.payload.duplicate_decisions)
       /\ call.created \subseteq IdsOf(call.existing_decisions)


(***************************************************************************)
(* analyze_conversation and _conduct_analysis with answers in which a      *)
(* create_intervention_decision block may come before a block that makes   *)
(* the loop raise.                                                         *)
(***************************************************************************)
MaxBatch == 2       \* most content blocks of a batch

\* the blocks of a batch, ids apart
BatchBlocks ==
    { TextBlock, MalformedToolUse,
      [type |-> "tool_use", name |-> CreateTool, input |-> CreateInput("m1")],
      [type |-> "tool_use", name |-> NotifyTool, input |-> NotifyInput] }

\* response.content of one messages.create call
Batches(max) ==
    UNION { { WithIdsWhereFormed(s) : s \in [1..n -> BatchBlocks] } : n \in 0..max }

\* the prompt and the messages.create call
EngineBatch(r) ==
    /\ run[r].pc = "conduct"
    /\ IF PromptRaises(run[r].context)
       THEN Set(r, ConductReturns(run[r], [some |-> FALSE]))
       ELSE \/ Set(r, ConductReturns([run[r] EXCEPT !.engine_calls = @ + 1],
                                     [some |-> FALSE]))
            \/ \E content \in Batches(MaxBatch) :
                 Set(r, [run[r] EXCEPT !.engine_calls = @ + 1,
                                       !.response = content,
                                       !.idx = 1,
                                       !.pc = "tools"])
    /\ UNCHANGED <<conversations, decisions, call>>

NextBatch ==
    \E r \in RunIds :
        \/ AnalyzeConversation(r)
        \/ IdempotencyCheck(r)
        \/ ContextAssembly(r)
        \/ ConductAnalysisCall(r)
        \/ EngineBatch(r)
        \/ PassBlock(r)
        \/ ToolStart(r)
        \/ ToolReturn(r)
        \/ BlockRaises(r)
        \/ ConductFinish(r)

SpecBatch == Init /\ [][NextBatch]_vars

(***************************************************************************)
(* C34.  For every run and every outcome, decisions_created of the result  *)
(* is the number of Decisions the run persisted, and a run that ends with  *)
(* analysis_completed=false has persisted no Decision, also when it fails  *)
(* after tool calls of the batch were executed.  For _conduct_analysis     *)
(* called on its own the result is the one analyze_conversation makes of   *)
(* its value: None gives analysis_completed=false with decisions_created   *)
(* 0, a dict gives analysis_completed=true with the dict's count.          *)
(***************************************************************************)
\* the run is over and answered with analysis_completed=false
EndsFailed(r) ==
    \/ run[r].result.returned /\ ~run[r].result.analysis_completed
    \/ run[r].pc = "done" /\ run[r].conduct_result = "None"

\* decisions_created of the result of a run that is over
ReportedCount(r) ==
    IF run[r].result.returned THEN run[r].result.decisions_created
    ELSE IF run[r].conduct_result = "dict" THEN run[r].decisions_created
    ELSE 0

C34_CountIsPersisted ==
    \A r \in RunIds :
        run[r].pc = "done" =>
            /\ ReportedCount(r) = Cardinality(run[r].created)
            /\ EndsFailed(r) => run[r].created = {}
            /\ Len(decisions) = Cardinality(run[r].created)

\* a batch has had a create invocation executed and then failed at a later block
C34_Witness ==
    \E r \in RunIds :
        /\ run[r].pc = "done"
        /\ EndsFailed(r)
        /\ \E i \in 1..Len(run[r].started) :
              run[r].response[run[r].started[i]].name = CreateTool
        /\ Len(run[r].started) < Len(run[r].response)
        /\ run[r].created = {}


(***************************************************************************)
(* C35.  Every result of analyze_conversation is of one of three shapes:   *)
(* analysis_completed=false comes with decisions_created=0 and an error    *)
(* message; analysis_completed=true with an error message comes only from  *)
(* the already-analyzed skip, with decisions_created=0; and a run that     *)
(* completed tool execution has analysis_completed=true and no error       *)
(* message.  For _conduct_analysis called on its own the result is the one *)
(* analyze_conversation makes of its value.                                *)
(***************************************************************************)
\* the result of a run that is over
ResultOf(r) ==
    IF run[r].result.returned THEN run[r].result
    ELSE IF run[r].pc = "done" /\ run[r].entry = "conduct"
    THEN ConductReturns([run[r] EXCEPT !.entry = "analyze"],
                        [some |-> run[r].conduct_result = "dict",
                         decisions_created |-> run[r].decisions_created]).result
    ELSE NoResult

\* the run ended at the idempotency check
Skipped(r) ==
    /\ run[r].checked
    /\ run[r].assemblies = 0
    /\ run[r].engine_calls = 0

\* the loop over the blocks of the answer ran to its end
CompletedToolExecution(r) ==
    /\ run[r].pc = "done"
    /\ run[r].engine_calls = 1
    /\ run[r].idx > Len(run[r].response)

C35_ResultShape ==
    \A r \in RunIds :
        ResultOf(r).returned =>
            /\ ~ResultOf(r).analysis_completed =>
                  /\ ResultOf(r).decisions_created = 0
                  /\ ResultOf(r).error_message # NULL
            /\ (ResultOf(r).analysis_completed /\ ResultOf(r).error_message # NULL) =>
                  /\ Skipped(r)
                  /\ ResultOf(r).decisions_created = 0
            /\ CompletedToolExecution(r) =>
                  /\ ResultOf(r).analysis_completed
                  /\ ResultOf(r).error_message = NULL

\* a run whose two tool invocations were executed to the end of the batch
C35_Witness ==
    \E r \in RunIds :
        /\ CompletedToolExecution(r)
        /\ Len(run[r].tool_results) = 2
        /\ ResultOf(r).returned
        /\ ResultOf(r).analysis_completed


(***************************************************************************)
(* C36.  The steps of a run of analyze_conversation up to the skip or the  *)
(* failed context assembly (the call, the idempotency check, the assembly) *)
(* leave the store as it is: no Decision is created, changed or removed,   *)
(* and no Conversation row, its metadata and timestamps included, is       *)
(* written.                                                                *)
(***************************************************************************)
\* the step belongs to a run of analyze_conversation
RunStep(r) == run'[r] # run[r] /\ run'[r].entry = "analyze"

C36_ReadOnlyStep ==
    \A r \in RunIds :
        RunStep(r) => /\ decisions' = decisions
                      /\ conversations' = conversations
                      /\ run'[r].created = {}

C36_SkipAndFailedAssemblyOnlyRead == [][C36_ReadOnlyStep]_vars

\* a run passed the check and ended with failed assembly, on a store that
\* holds its Conversation and a Decision
C36_Witness ==
    \E r \in RunIds :
        /\ run[r].result.returned
        /\ ~run[r].result.analysis_completed
        /\ run[r].checked
        /\ run[r].assemblies = 1
        /\ conversations[run[r].conversation_id].exists
        /\ Len(decisions) = 1


(***************************************************************************)
(* execute_tool called for a check_duplicate_decision block, on a store    *)
(* whose query may raise.                                                  *)
(***************************************************************************)
MaxLooked == 2      \* most Decision rows of the store that is looked up

InitFailedLookup ==
    /\ conversations = [id \in ConvIds |-> AbsentRow]
    /\ decisions \in DecisionStores(MaxLooked)
    /\ run = [r \in RunIds |-> OffRun]
    /\ call \in { [fn |-> "execute_check", input |-> q, returned |-> FALSE] :
                    q \in DuplicateQueries }

\* await self.tool_orchestrator.execute_tool(tool_block, db_session, input_data)
\* for a check_duplicate_decision block.  fault: db_session.execute raises
ExecuteCheckCall ==
    /\ call.fn = "execute_check"
    /\ ~call.returned
    /\ \E fault \in BOOLEAN :
         LET tool_block == [type |-> "tool_use", name |-> CheckTool,
                            input |-> call.input, id |-> ToolUseId(1)]
             input_data == [conversation_id |-> "c1", match_id |-> "m1",
                            force_reanalysis |-> FALSE]
             out == ExecuteTool(tool_block, input_data, fault, decisions)
         IN /\ decisions' = out.decisions
            /\ call' = [fn |-> "execute_check", input |-> call.input,
                        returned |-> TRUE, fault |-> fault,
                        propagates |-> out.propagates, result |-> out.result]
    /\ UNCHANGED <<conversations, run>>

NextFailedLookup == ExecuteCheckCall

SpecFailedLookup == InitFailedLookup /\ [][NextFailedLookup]_vars

(***************************************************************************)
(* C37.  When the store query of check_duplicate_decision raises, no       *)
(* exception leaves the handler or execute_tool: the result record has     *)
(* success=true and its payload says is_duplicate=false, duplicate_count=0 *)
(* and carries an error text; a lookup that did not fail and found no      *)
(* duplicate has success=true as well, so the flag does not tell the two   *)
(* apart.                                                                  *)
(***************************************************************************)
C37_FailedLookupReportsSuccess ==
    (call.fn = "execute_check" /\ call.returned) =>
        /\ ~call.propagates
        /\ call.result.success
        /\ call.fault =>
              /\ call.result.result.is_duplicate = FALSE
              /\ call.result.result.duplicate_count = 0
              /\ "error" \in DOMAIN call.result.result
              /\ call.result.result.error # NULL

\* the query raised on a store that holds a Decision the query asks for
C37_Witness ==
    /\ call.fn = "execute_check"
    /\ call.returned
    /\ call.fault
    /\ "decision_title" \in DOMAIN call.input
    /\ \E i \in 1..Len(decisions) : AnswersQuery(decisions[i], call.input)
    /\ call.result.success
    /\ ~call.result.result.is_duplicate


(***************************************************************************)
(* C38.  The idempotency check fails open.  When the conversation does not *)
(* exist or the read of it raises, the check says "not analyzed": the      *)
(* non-forced run goes on to context assembly, it is neither skipped nor   *)
(* ended at the check.  For a conversation that does not exist the run     *)
(* then ends with failed assembly, without an engine invocation.           *)
(***************************************************************************)
\* the run's check found no conversation, or its read raised
CheckFoundNothing(r) ==
    /\ run[r].entry = "analyze"
    /\ run[r].checked
    /\ run[r].check_fault \/ ~SelectConversation(run[r].conversation_id).exists

C38_CheckFailsOpen ==
    \A r \in RunIds :
        CheckFoundNothing(r) =>
            /\ run[r].pc \notin {"check", "escaped"}
            /\ run[r].pc = "assemble" \/ run[r].assemblies = 1
            /\ run[r].result.returned =>
                  run[r].result.error_message # "Already analyzed"
            /\ (run[r].result.returned
                  /\ ~SelectConversation(run[r].conversation_id).exists) =>
                  /\ ~run[r].result.analysis_completed
                  /\ run[r].result.error_message =
                        "Failed to assemble conversation context"
                  /\ run[r].engine_calls = 0

\* a run for a conversation that does not exist passed the check and ended
\* with failed assembly
C38_Witness ==
    \E r \in RunIds :
        /\ CheckFoundNothing(r)
        /\ ~run[r].check_fault
        /\ ~SelectConversation(run[r].conversation_id).exists
        /\ run[r].result.returned
        /\ run[r].assemblies = 1
        /\ run[r].engine_calls = 0


====
